---------------------------- MODULE Spec2Model ----------------------------
(***************************************************************************)
(* A model of the hybrid text-correction engine of Pulox:                  *)
(*   src/src/correction/rules_tl.py       the Tagalog tables               *)
(*   src/src/correction/rules.py          CorrectionRules, the rule engine *)
(*   src/src/correction/error_corrector.py ErrorCorrector, the orchestrator*)
(*   src/src/correction/models.py         the result and config records    *)
(*                                                                         *)
(* A Python str is a TLA+ string; its characters are read with SubSeq.     *)
(* The texts of the model are ASCII.  A float confidence is an integer     *)
(* number of thousandths (1.0 is 1000, 0.85 is 850).                       *)
(***************************************************************************)
EXTENDS Integers, Sequences, FiniteSets, TLC

VARIABLES
    corrector,   \* the ErrorCorrector object: use_ml, ml_model, rules
    request,     \* the call being made: its operation and arguments
    result       \* what the call returned (or raised); Pending before it ran

vars == <<corrector, request, result>>

---------------------------------------------------------------------------
(* Python values *)

\* Python's None, kept apart from every str of the model (no text holds '<').
None == "<None>"

\* s[i-1] in Python's 0-based terms: the i-th character of s.
Ch(s, i) == SubSeq(s, i, i)

\* s[i-1:] and s[:i]
From(s, i) == SubSeq(s, i, Len(s))

UpperLetters == "ABCDEFGHIJKLMNOPQRSTUVWXYZ"
LowerLetters == "abcdefghijklmnopqrstuvwxyz"
Digits == "0123456789"

CharSet(s) == {Ch(s, i) : i \in 1..Len(s)}

UpperSet == CharSet(UpperLetters)
LowerSet == CharSet(LowerLetters)
DigitSet == CharSet(Digits)

\* The characters \s matches, those str.split() splits on and str.strip()
\* strips (the ASCII ones the model's texts use).
Whitespace == {" ", "\t", "\n"}

\* The characters \w matches.
WordChars == UpperSet \cup LowerSet \cup DigitSet \cup {"_"}

LowerMap ==
    [c \in UpperSet |->
        Ch(LowerLetters, CHOOSE i \in 1..Len(UpperLetters) : Ch(UpperLetters, i) = c)]

UpperMap ==
    [c \in LowerSet |->
        Ch(UpperLetters, CHOOSE i \in 1..Len(LowerLetters) : Ch(LowerLetters, i) = c)]

\* str.lower() and str.upper() of one character.
LowerCh(c) == IF c \in UpperSet THEN LowerMap[c] ELSE c

UpperCh(c) == IF c \in LowerSet THEN UpperMap[c] ELSE c

\* str.lower() and str.upper(), by halves.
RECURSIVE Lower(_)
Lower(s) ==
    IF Len(s) <= 1 THEN LowerCh(s)
    ELSE Lower(SubSeq(s, 1, Len(s) \div 2)) \o Lower(SubSeq(s, Len(s) \div 2 + 1, Len(s)))

RECURSIVE Upper(_)
Upper(s) ==
    IF Len(s) <= 1 THEN UpperCh(s)
    ELSE Upper(SubSeq(s, 1, Len(s) \div 2)) \o Upper(SubSeq(s, Len(s) \div 2 + 1, Len(s)))

\* needle in s
Contains(s, needle) ==
    \E i \in 1..(Len(s) - Len(needle) + 1) : SubSeq(s, i, i + Len(needle) - 1) = needle

\* str.strip()
RECURSIVE LStrip(_)
LStrip(s) == IF s # "" /\ Ch(s, 1) \in Whitespace THEN LStrip(From(s, 2)) ELSE s

RECURSIVE RStrip(_)
RStrip(s) ==
    IF s # "" /\ Ch(s, Len(s)) \in Whitespace THEN RStrip(SubSeq(s, 1, Len(s) - 1)) ELSE s

Strip(s) == RStrip(LStrip(s))

\* str.split(): the maximal runs of non-whitespace characters, in order.
RECURSIVE SplitFrom(_, _, _)
SplitFrom(s, i, word) ==
    IF i > Len(s) THEN (IF word = "" THEN <<>> ELSE <<word>>)
    ELSE IF Ch(s, i) \in Whitespace
         THEN (IF word = "" THEN <<>> ELSE <<word>>) \o SplitFrom(s, i + 1, "")
         ELSE SplitFrom(s, i + 1, word \o Ch(s, i))

Split(s) == SplitFrom(s, 1, "")

\* ' '.join(words)
RECURSIVE Join(_)
Join(words) ==
    IF words = <<>> THEN ""
    ELSE IF Len(words) = 1 THEN words[1]
    ELSE words[1] \o " " \o Join(Tail(words))

\* ''.join(parts)
RECURSIVE Concat(_)
Concat(parts) == IF parts = <<>> THEN "" ELSE parts[1] \o Concat(Tail(parts))

---------------------------------------------------------------------------
(***************************************************************************)
(* Regular expressions (Python's re).  A compiled pattern is a sequence of *)
(* atoms, one per element of the pattern text:                             *)
(*    lit   a literal character                                            *)
(*    wb    \b                                                             *)
(*    rep   a greedy repetition of a character class, at least min times   *)
(*          (\s+, \s*, \s{2,}, [.!?]+)                                     *)
(*    one   a class matching one character, a capture group                *)
(*          (([aeiou]), ([.,!?;:]), ([A-Za-z]), ([.!?]), ([A-Z]))          *)
(*    alt   an alternation of literal words, a capture group               *)
(*    nla   the negative lookahead (?!\w)                                  *)
(*    err   a pattern text re.compile rejects                              *)
(* In every pattern of the program a greedy repetition is followed by an   *)
(* atom that matches none of the repeated class and an alternation ends    *)
(* the pattern, so a match never backtracks.                               *)
(***************************************************************************)
WB == <<[k |-> "wb"]>>
NLA == <<[k |-> "nla"]>>
L(s) == [i \in 1..Len(s) |-> [k |-> "lit", c |-> Ch(s, i)]]
Rep(set, n) == <<[k |-> "rep", set |-> set, min |-> n]>>
One(set) == <<[k |-> "one", set |-> set]>>
Alt(words) == <<[k |-> "alt", alts |-> words]>>
Malformed == <<[k |-> "err"]>>

\* re.escape(s) as a pattern: every character of s taken literally.
Escape(s) == L(s)

\* re.compile(pattern) raises re.error
CompileRaises(p) == \E k \in 1..Len(p) : p[k].k = "err"

\* The number of capture groups of a pattern.
NGroups(p) == Cardinality({k \in 1..Len(p) : p[k].k \in {"one", "alt"}})

IsWordAt(s, i) == i >= 1 /\ i <= Len(s) /\ Ch(s, i) \in WordChars

\* One character against a literal or a class, under re.IGNORECASE when ci.
CharIs(ci, ch, c) == IF ci THEN LowerCh(ch) = LowerCh(c) ELSE ch = c
CharIn(ci, ch, set) == ch \in set \/ (ci /\ (LowerCh(ch) \in set \/ UpperCh(ch) \in set))

\* The end of the greedy run of class characters starting at i.
RECURSIVE RunEnd(_, _, _, _)
RunEnd(ci, s, i, set) ==
    IF i <= Len(s) /\ CharIn(ci, Ch(s, i), set) THEN RunEnd(ci, s, i + 1, set) ELSE i

\* Whether the literal word w matches at i.
LitAt(ci, s, i, w) ==
    /\ i + Len(w) - 1 <= Len(s)
    /\ \A j \in 1..Len(w) : CharIs(ci, Ch(s, i + j - 1), Ch(w, j))

NoMatch == [ok |-> FALSE, end |-> 0, groups |-> <<>>]

\* pattern.match at position i: atoms k.. of p against s from its i-th
\* character; end is the position after the match.
RECURSIVE MatchFrom(_, _, _, _, _, _)
MatchFrom(p, ci, s, k, i, groups) ==
    IF k > Len(p) THEN [ok |-> TRUE, end |-> i, groups |-> groups]
    ELSE LET a == p[k] IN
      CASE a.k = "lit" ->
             IF i <= Len(s) /\ CharIs(ci, Ch(s, i), a.c)
             THEN MatchFrom(p, ci, s, k + 1, i + 1, groups) ELSE NoMatch
        [] a.k = "wb" ->
             IF IsWordAt(s, i - 1) # IsWordAt(s, i)
             THEN MatchFrom(p, ci, s, k + 1, i, groups) ELSE NoMatch
        [] a.k = "nla" ->
             IF ~IsWordAt(s, i)
             THEN MatchFrom(p, ci, s, k + 1, i, groups) ELSE NoMatch
        [] a.k = "rep" ->
             LET e == RunEnd(ci, s, i, a.set) IN
             IF e - i >= a.min
             THEN MatchFrom(p, ci, s, k + 1, e, groups) ELSE NoMatch
        [] a.k = "one" ->
             IF i <= Len(s) /\ CharIn(ci, Ch(s, i), a.set)
             THEN MatchFrom(p, ci, s, k + 1, i + 1, Append(groups, Ch(s, i)))
             ELSE NoMatch
        [] a.k = "alt" ->
             LET hits == {n \in 1..Len(a.alts) : LitAt(ci, s, i, a.alts[n])} IN
             IF hits = {} THEN NoMatch
             ELSE LET n == CHOOSE m \in hits : \A o \in hits : m <= o
                      e == i + Len(a.alts[n])
                  IN MatchFrom(p, ci, s, k + 1, e, Append(groups, SubSeq(s, i, e - 1)))
        [] OTHER -> NoMatch

MatchAt(p, ci, s, i) == MatchFrom(p, ci, s, 1, i, <<>>)

\* pattern.search(s) is not None
Search(p, ci, s) == \E i \in 1..Len(s) : MatchAt(p, ci, s, i).ok

DigitValue(c) == CHOOSE n \in 0..9 : Ch(Digits, n + 1) = c

\* The replacement template with \1, \2, ... replaced by the groups.
RECURSIVE Expand(_, _)
Expand(repl, groups) ==
    IF repl = "" THEN ""
    ELSE IF Ch(repl, 1) = "\\" /\ Len(repl) >= 2 /\ Ch(repl, 2) \in DigitSet
         THEN groups[DigitValue(Ch(repl, 2))] \o Expand(From(repl, 3), groups)
         ELSE Ch(repl, 1) \o Expand(From(repl, 2), groups)

\* pattern.sub(repl, s) raises re.error: the template names a group the
\* pattern does not have.
SubRaises(p, repl) ==
    \E j \in 1..(Len(repl) - 1) :
        /\ Ch(repl, j) = "\\"
        /\ Ch(repl, j + 1) \in DigitSet
        /\ DigitValue(Ch(repl, j + 1)) > NGroups(p)

\* pattern.sub(repl, s): the non-overlapping matches, leftmost first, each
\* replaced by the expanded template.  No pattern of the program matches
\* the empty string.
RECURSIVE SubFrom(_, _, _, _, _)
SubFrom(p, ci, repl, s, i) ==
    IF i > Len(s) THEN ""
    ELSE LET m == MatchAt(p, ci, s, i) IN
         IF m.ok /\ m.end > i
         THEN Expand(repl, m.groups) \o SubFrom(p, ci, repl, s, m.end)
         ELSE Ch(s, i) \o SubFrom(p, ci, repl, s, i + 1)

Sub(p, ci, repl, s) == SubFrom(p, ci, repl, s, 1)

\* re.split(pattern, s) for a pattern that is one capture group: the pieces
\* between the matches alternate with the matched separators.
RECURSIVE ReSplitFrom(_, _, _, _, _)
ReSplitFrom(p, ci, s, i, piece) ==
    IF i > Len(s) THEN <<piece>>
    ELSE LET m == MatchAt(p, ci, s, i) IN
         IF m.ok /\ m.end > i
         THEN <<piece, SubSeq(s, i, m.end - 1)>> \o ReSplitFrom(p, ci, s, m.end, "")
         ELSE ReSplitFrom(p, ci, s, i + 1, piece \o Ch(s, i))

ReSplit(p, ci, s) == ReSplitFrom(p, ci, s, 1, "")

---------------------------------------------------------------------------
(***************************************************************************)
(* rules_tl.py: the Tagalog tables.  A Python dict is the sequence of its  *)
(* <<key, value>> pairs in insertion order, the order items() iterates in. *)
(***************************************************************************)
TAGALOG_WORD_SPLITS ==
    << <<"commustaka", "kumusta ka">>, <<"gamustaka", "kumusta ka">>, <<"kumustaka", "kumusta ka">>,
       <<"camustaka", "kumusta ka">>, <<"kamustaka", "kumusta ka">>, <<"magandangumaga", "magandang umaga">>,
       <<"magandanumaga", "magandang umaga">>, <<"magandanghapon", "magandang hapon">>, <<"magandanhapon", "magandang hapon">>,
       <<"magandanggabi", "magandang gabi">>, <<"magandangabi", "magandang gabi">>, <<"kumustana", "kumusta na">>,
       <<"anoba", "ano ba">>, <<"saanba", "saan ba">>, <<"sinoyan", "sino yan">>,
       <<"ayokona", "ayoko na">>, <<"takdangaralin", "takdang aralin">>, <<"takdangara lin", "takdang aralin">>,
       <<"pagaaralan", "pag-aaralan">>, <<"pagaaral", "pag-aaral">>, <<"pagsusulat", "pagsusulat">>,
       <<"kapo", "ka po">>, <<"napo", "na po">>, <<"yonpo", "yon po">>,
       <<"bapo", "ba po">> >>

TAGALOG_ASR_ERRORS ==
    << <<"ho", "po">>, <<"anu", "ano">>, <<"ano-ano", "ano ano">>,
       <<"saan-saan", "saan saan">>, <<"bat", "bakit">>, <<"bkit", "bakit">>,
       <<"pano", "paano">>, <<"panu", "paano">>, <<"kelan", "kailan">>,
       <<"klan", "kailan">>, <<"pra", "para">>, <<"pra sa", "para sa">>,
       <<"sa sa", "sa">>, <<"ng ng", "ng">>, <<"na nga", "na nga">>,
       <<"nga ba", "nga ba">>, <<"lang lang", "lang">>, <<"naman naman", "naman">>,
       <<"ako ako", "ako">>, <<"ikaw ikaw", "ikaw">>, <<"gawa", "gawa">>,
       <<"gawin", "gawin">>, <<"kain", "kain">>, <<"kainin", "kainin">>,
       <<"yan yan", "yan">>, <<"yun", "yun">>, <<"yon", "yon">>,
       <<"klase", "klase">>, <<"aralin", "aralin">>, <<"leksyon", "leksyon">>,
       <<"guro", "guro">>, <<"estudyante", "estudyante">>, <<"iskolar", "iskolar">>,
       <<"tatlong", "tatlong">>, <<"apat na", "apat na">> >>

TAGALOG_CLASSROOM_TERMS ==
    << <<"matematika", "matematika">>, <<"algebra", "algebra">>, <<"geometry", "geometry">>,
       <<"kalkulasyon", "kalkulasyon">>, <<"numero", "numero">>, <<"siyensya", "siyensya">>,
       <<"kimika", "kimika">>, <<"pisika", "pisika">>, <<"biolo hiya", "biolohiya">>,
       <<"biolohiya", "biolohiya">>, <<"edukasyon", "edukasyon">>, <<"pag-aaral", "pag-aaral">>,
       <<"pag-aralan", "pag-aralan">>, <<"pagsusulit", "pagsusulit">>, <<"takdang-aralin", "takdang-aralin">>,
       <<"takdang aralin", "takdang aralin">>, <<"magsulat", "magsulat">>, <<"magbasa", "magbasa">>,
       <<"makinig", "makinig">>, <<"sagutin", "sagutin">>, <<"pakiulit", "pakiulit">>,
       <<"ulitin", "ulitin">>, <<"maintindihan", "maintindihan">>, <<"naintindihan", "naintindihan">>,
       <<"intindihin", "intindihin">>, <<"malinaw", "malinaw">> >>

Keys(d) == {d[i][1] : i \in 1..Len(d)}

Value(d, key) == d[CHOOSE i \in 1..Len(d) : d[i][1] = key][2]

\* dict.update(u): a key d has keeps its place and takes u's value, a new
\* key is appended in u's order.
DictUpdate(d, u) ==
    [i \in 1..Len(d) |-> IF d[i][1] \in Keys(u) THEN <<d[i][1], Value(u, d[i][1])>> ELSE d[i]]
    \o SelectSeq(u, LAMBDA e : e[1] \notin Keys(d))

ALL_TAGALOG_CORRECTIONS ==
    DictUpdate(DictUpdate(<<>>, TAGALOG_ASR_ERRORS), TAGALOG_CLASSROOM_TERMS)

---------------------------------------------------------------------------
(* rules.py: CorrectionRules *)

CorrectionRule(pattern, replacement, description, language) ==
    [pattern |-> pattern, replacement |-> replacement,
     description |-> description, language |-> language]

Vowels == CharSet("aeiou")
Punctuation == CharSet(".,!?;:")
Letters == UpperSet \cup LowerSet
SentenceEnd == CharSet(".!?")

_load_rules ==
    << \* Tagalog specific rules
       CorrectionRule(WB \o L("nga") \o WB, "nga", "Tagalog particle nga", "tl"),
       CorrectionRule(WB \o L("po") \o WB, "po", "Respectful particle po", "tl"),
       CorrectionRule(WB \o L("ho") \o WB \o NLA, "po", "po often misheard as ho", "tl"),
       CorrectionRule(WB \o L("nang") \o Rep(Whitespace, 1) \o Alt(<<"ay", "ang", "mga", "sa">>),
                      "ng \\1", "ng before common Tagalog words", "tl"),
       CorrectionRule(WB \o L("yon") \o WB, "yon", "Correct yon (that)", "tl"),
       CorrectionRule(WB \o L("kung") \o Rep(Whitespace, 1) \o L("saan") \o WB,
                      "kung saan", "kung saan (where)", "tl"),
       \* English specific rules
       CorrectionRule(WB \o L("a") \o Rep(Whitespace, 1) \o One(Vowels),
                      "an \\1", "a -> an before vowels", "en"),
       CorrectionRule(WB \o L("cannot") \o WB, "can't", "cannot -> can't", "en"),
       CorrectionRule(WB \o L("will not") \o WB, "won't", "will not -> won't", "en"),
       \* Phonetic corrections
       CorrectionRule(WB \o L("punction") \o WB, "function", "P -> F confusion", "both"),
       CorrectionRule(WB \o L("pormula") \o WB, "formula", "P -> F confusion", "both"),
       CorrectionRule(WB \o L("bery") \o WB, "very", "B -> V confusion", "both"),
       CorrectionRule(WB \o L("alue") \o WB, "value", "B -> V confusion", "both"),
       CorrectionRule(WB \o L("dat") \o WB \o NLA, "that", "D -> TH correction", "both"),
       CorrectionRule(WB \o L("dis") \o WB \o NLA, "this", "D -> TH correction", "both"),
       CorrectionRule(WB \o L("wit") \o WB \o NLA, "with", "T -> TH correction", "both"),
       \* Punctuation rules
       CorrectionRule(Rep(Whitespace, 2), " ", "Multiple spaces -> single space", "both"),
       CorrectionRule(Rep(Whitespace, 1) \o One(Punctuation), "\\1",
                      "Remove space before punctuation", "both"),
       CorrectionRule(One(Punctuation) \o One(Letters), "\\1 \\2",
                      "Add space after punctuation", "both") >>

_load_common_errors ==
    << <<"yung", "yung">>, <<"ung", "yung">>, <<"kung ano", "kung ano">>,
       <<"kung san", "kung saan">>, <<"pra", "para">>, <<"pra sa", "para sa">>,
       <<"gus2", "gusto">>, <<"bat", "bakit">>, <<"gonna", "going to">>,
       <<"wanna", "want to">>, <<"gotta", "got to">>, <<"kinda", "kind of">>,
       <<"sorta", "sort of">>, <<"di ba", "hindi ba">>, <<"dba", "hindi ba">>,
       <<"ano ba", "ano ba">>, <<"anu", "ano">> >>

\* CorrectionRules.__init__: the rule list, the common errors with the
\* Tagalog corrections merged in, and the word splits.
CorrectionRules ==
    [rules |-> _load_rules,
     common_errors |-> DictUpdate(_load_common_errors, ALL_TAGALOG_CORRECTIONS),
     tagalog_word_splits |-> TAGALOG_WORD_SPLITS]

\* re.compile(r'\b' + re.escape(key) + r'\b', re.IGNORECASE)
WholeWord(key) == WB \o Escape(key) \o WB

\* The loop of _split_concatenated_words over the entries from the i-th on.
\* lower is corrected.lower(), which the loop reads at every entry; it is
\* computed again only when corrected changes.
RECURSIVE SplitLoop(_, _, _, _)
SplitLoop(acc, lower, entries, i) ==
    IF i > Len(entries) THEN acc
    ELSE LET concatenated == entries[i][1]
             split == entries[i][2]
             pattern == WholeWord(concatenated)
         IN IF Contains(lower, concatenated) /\ Search(pattern, TRUE, acc.text)
            THEN LET corrected == Sub(pattern, TRUE, split, acc.text) IN
                 SplitLoop([text |-> corrected,
                            changes |-> Append(acc.changes,
                                "Split: '" \o concatenated \o "' -> '" \o split \o "'")],
                           Lower(corrected), entries, i + 1)
            ELSE SplitLoop(acc, lower, entries, i + 1)

\* The first pass left out
_split_nothing(self, text) == [text |-> text, changes |-> <<>>]

_split_concatenated_words(self, text) ==
    SplitLoop([text |-> text, changes |-> <<>>], Lower(text), self.tagalog_word_splits, 1)

\* The common-error loop of apply_rules over the entries from the i-th on.
RECURSIVE CommonErrorLoop(_, _, _, _)
CommonErrorLoop(acc, lower, entries, i) ==
    IF i > Len(entries) THEN acc
    ELSE LET error == entries[i][1]
             correction == entries[i][2]
             pattern == WholeWord(error)
         IN IF Contains(lower, error) /\ Search(pattern, TRUE, acc.text)
            THEN LET corrected == Sub(pattern, TRUE, correction, acc.text) IN
                 CommonErrorLoop([text |-> corrected,
                                  changes |-> Append(acc.changes,
                                      "'" \o error \o "' -> '" \o correction \o "'")],
                                 Lower(corrected), entries, i + 1)
            ELSE CommonErrorLoop(acc, lower, entries, i + 1)

\* should_apply when the tags are not looked at
should_apply_any(rule, language) == TRUE

\* should_apply that wants the rule's tag to be the label
should_apply_tagged(rule, language) == rule.language = language

\* The test of apply_rules that lets a rule run under a label
should_apply(rule, language) ==
    \/ language = "both"
    \/ rule.language = "both"
    \/ rule.language = language
    \/ language = "mixed"

\* The pattern-rule loop that records every rule whose pattern matched
RECURSIVE RuleLoopOnMatch(_, _, _, _)
RuleLoopOnMatch(acc, rules, language, i) ==
    IF i > Len(rules) \/ acc.raised # "" THEN acc
    ELSE IF ~should_apply(rules[i], language) THEN RuleLoopOnMatch(acc, rules, language, i + 1)
    ELSE IF CompileRaises(rules[i].pattern) THEN [acc EXCEPT !.raised = "re.error"]
    ELSE IF ~Search(rules[i].pattern, TRUE, acc.text)
         THEN RuleLoopOnMatch(acc, rules, language, i + 1)
    ELSE IF SubRaises(rules[i].pattern, rules[i].replacement)
         THEN [acc EXCEPT !.raised = "re.error"]
    ELSE RuleLoopOnMatch(
             [acc EXCEPT !.text = Sub(rules[i].pattern, TRUE, rules[i].replacement, @),
                         !.changes = Append(@, rules[i].description)],
             rules, language, i + 1)

\* The pattern-rule loop of apply_rules over the rules from the i-th on.
\* Nothing in the loop catches an exception: one raised by re.compile or by
\* pattern.sub leaves apply_rules.
RECURSIVE RuleLoop(_, _, _, _)
RuleLoop(acc, rules, language, i) ==
    IF i > Len(rules) \/ acc.raised # "" THEN acc
    ELSE LET rule == rules[i] IN
         IF ~should_apply(rule, language) THEN RuleLoop(acc, rules, language, i + 1)
         ELSE IF CompileRaises(rule.pattern) THEN [acc EXCEPT !.raised = "re.error"]
         ELSE IF ~Search(rule.pattern, TRUE, acc.text) THEN RuleLoop(acc, rules, language, i + 1)
         ELSE IF SubRaises(rule.pattern, rule.replacement)
              THEN [acc EXCEPT !.raised = "re.error"]
         ELSE LET new_text == Sub(rule.pattern, TRUE, rule.replacement, acc.text) IN
              IF new_text # acc.text
              THEN RuleLoop([acc EXCEPT !.text = new_text,
                                        !.changes = Append(@, rule.description)],
                            rules, language, i + 1)
              ELSE RuleLoop(acc, rules, language, i + 1)

\* re.split(r'([.!?]+\s+)', text)
SentenceBoundary == Rep(SentenceEnd, 1) \o Rep(Whitespace, 1)

\* The pieces with every sentence's first letter in capitals; the pieces
\* at even positions are the separators.
Capitalized(sentences) ==
    LET cap(part) == IF Len(part) > 1 THEN UpperCh(Ch(part, 1)) \o From(part, 2)
                     ELSE Upper(part)
    IN [i \in 1..Len(sentences) |->
          IF i % 2 = 1 /\ sentences[i] # "" THEN cap(sentences[i])
          ELSE sentences[i]]

_capitalize_sentences(text) ==
    Concat(Capitalized(ReSplit(SentenceBoundary, FALSE, text)))

\* The substitution that deletes the whitespace instead of collapsing it
RemoveWhitespace(text) == Sub(Rep(Whitespace, 1), FALSE, "", text)

\* re.sub(r'\s+', ' ', text)
CollapseWhitespace(text) == Sub(Rep(Whitespace, 1), FALSE, " ", text)

\* apply_rules(text, language): the corrected text and the change
\* descriptions, or the exception that left it.
\* Step 2 of apply_rules, after the word splits gave split.
CommonErrors(self, split) ==
    CommonErrorLoop(split, Lower(split.text), self.common_errors, 1)

\* The pattern rules, after the common errors gave common.
PatternRules(self, common, language) ==
    RuleLoop([raised |-> "", text |-> common.text, changes |-> common.changes],
             self.rules, language, 1)

\* The end of apply_rules without the strip()
TidyUntrimmed(ruled) ==
    IF ruled.raised # "" THEN ruled
    ELSE [ruled EXCEPT !.text = CollapseWhitespace(_capitalize_sentences(@))]

\* The capitalization and the whitespace clean-up that end apply_rules.
Tidy(ruled) ==
    IF ruled.raised # "" THEN ruled
    ELSE [ruled EXCEPT !.text = Strip(CollapseWhitespace(_capitalize_sentences(@)))]

\* apply_rules with the lexicon pass kept from text labelled English
apply_rules_lexicon_gated(self, text, language) ==
    Tidy(PatternRules(self,
                      IF language = "en" THEN _split_concatenated_words(self, text)
                      ELSE CommonErrors(self, _split_concatenated_words(self, text)),
                      language))

\* The word splits made after the lexicon pass gave common
SplitAfter(self, common) ==
    [text |-> _split_concatenated_words(self, common.text).text,
     changes |-> common.changes \o _split_concatenated_words(self, common.text).changes]

\* apply_rules with the lexicon pass ahead of the word splits
apply_rules_lexicon_first(self, text, language) ==
    Tidy(PatternRules(self, SplitAfter(self, CommonErrors(self, [text |-> text,
                                                                  changes |-> <<>>])),
                      language))

apply_rules(self, text, language) ==
    Tidy(PatternRules(self, CommonErrors(self, _split_concatenated_words(self, text)),
                      language))

---------------------------------------------------------------------------
(* models.py *)

CorrectionLevel == {"light", "standard", "aggressive"}

CorrectionChange(original, corrected, error_type, confidence, description) ==
    [original |-> original, corrected |-> corrected, error_type |-> error_type,
     confidence |-> confidence, description |-> description]

CorrectionConfig(level, use_rules, use_ml, language_hint, min_confidence) ==
    [level |-> level, use_rules |-> use_rules, use_ml |-> use_ml,
     language_hint |-> language_hint, min_confidence |-> min_confidence]

\* CorrectionConfig(): the defaults
DefaultConfig == CorrectionConfig("standard", TRUE, TRUE, None, 700)

---------------------------------------------------------------------------
(* error_corrector.py: ErrorCorrector *)

\* The confidence of a change a rule made, of a replace block of the
\* generative diff, and of its insert and delete blocks.
RuleConfidence == 1000
ReplaceConfidence == 850
InsertDeleteConfidence == 800
\* The confidence _ml_correct reports when generate() gives no scores.
DefaultMlConfidence == 800
\* The confidence of a result with no change record whose text changed.
UnexplainedConfidence == 800
FullConfidence == 1000

\* ErrorCorrector.__init__(use_ml=use_ml) where HAS_ML_DEPS tells whether
\* torch and transformers import and load_ok whether from_pretrained
\* succeeds.  ml_model is None or the loaded model.
\* __init__ whose except branch does not reset self.use_ml.
ErrorCorrectorInitKeepsFlag(use_ml, HAS_ML_DEPS, load_ok) ==
    LET wanted == use_ml /\ HAS_ML_DEPS IN
    [rules |-> CorrectionRules,
     use_ml |-> wanted,
     ml_model |-> IF wanted /\ load_ok THEN "loaded" ELSE None]

ErrorCorrectorInit(use_ml, HAS_ML_DEPS, load_ok) ==
    LET wanted == use_ml /\ HAS_ML_DEPS IN
    [rules |-> CorrectionRules,
     use_ml |-> wanted /\ load_ok,
     ml_model |-> IF wanted /\ load_ok THEN "loaded" ELSE None]

tagalog_markers ==
    {"ang", "ng", "mga", "sa", "na", "ay", "at", "ka", "ko", "mo",
     "po", "nga", "ba", "lang", "naman"}

english_markers ==
    {"the", "is", "are", "was", "were", "have", "has", "been",
     "will", "and", "or", "but", "this", "that"}

Count(words, markers) == Cardinality({i \in 1..Len(words) : words[i] \in markers})

\* The detector with the threshold at twice the other count.
_detect_language_twice(text) ==
    LET words == Split(Lower(text))
        tl_count == Count(words, tagalog_markers)
        en_count == Count(words, english_markers)
    IN IF tl_count > 2 * en_count THEN "tl"
       ELSE IF en_count > 2 * tl_count THEN "en"
       ELSE "mixed"

\* The detector answering 'mixed' whenever a text has no marker of one set.
_detect_language_guarded(text) ==
    LET words == Split(Lower(text))
        tl_count == Count(words, tagalog_markers)
        en_count == Count(words, english_markers)
    IN IF tl_count = 0 \/ en_count = 0 THEN "mixed"
       ELSE IF 2 * tl_count > 3 * en_count THEN "tl"
       ELSE IF 2 * en_count > 3 * tl_count THEN "en"
       ELSE "mixed"

\* tl_count > en_count * 1.5, in halves
_detect_language(text) ==
    LET words == Split(Lower(text))
        tl_count == Count(words, tagalog_markers)
        en_count == Count(words, english_markers)
    IN IF 2 * tl_count > 3 * en_count THEN "tl"
       ELSE IF 2 * en_count > 3 * tl_count THEN "en"
       ELSE "mixed"

_classify_error_type(description) ==
    LET desc_lower == Lower(description) IN
    IF Contains(desc_lower, "punctuation") \/ Contains(desc_lower, "space") THEN "punctuation"
    ELSE IF Contains(desc_lower, "capital") THEN "capitalization"
    ELSE IF Contains(desc_lower, "confusion") \/ Contains(desc_lower, "phonetic") THEN "phonetic"
    ELSE IF Contains(desc_lower, "grammar") \/ Contains(desc_lower, "article") THEN "grammar"
    ELSE IF Contains(desc_lower, "spell") THEN "spelling"
    ELSE "word_choice"

_create_ml_prompt(text, language, level) ==
    LET base == IF language = "tl" THEN "Correct the following Tagalog text: "
                ELSE IF language = "en" THEN "Correct the following English text: "
                ELSE "Correct the following Filipino-English code-switched text: "
        qualifier == IF level = "light" THEN "(fix only obvious errors) "
                     ELSE IF level = "aggressive" THEN "(fix all errors and improve fluency) "
                     ELSE ""
    IN base \o qualifier \o text

Min(a, b) == IF a <= b THEN a ELSE b

\* _ml_correct whose except branch returns what was decoded so far.
_ml_correct_partial(self, text, language, level, gen) ==
    IF self.ml_model = None THEN [text |-> text, confidence |-> 0]
    ELSE IF gen.raises THEN [text |-> gen.corrected, confidence |-> 0]
    ELSE [text |-> gen.corrected,
          confidence |-> Min(IF gen.has_scores THEN gen.confidence ELSE DefaultMlConfidence,
                             FullConfidence)]

\* _ml_correct: what the model generates is the environment's choice, gen:
\* either tokenizing, generating or decoding raises, or the decoded text
\* comes with the confidence exp(sequences_scores[0]), or with no score.
\* An exception is caught and reported as the text unchanged, confidence 0.
_ml_correct(self, text, language, level, gen) ==
    IF self.ml_model = None THEN [text |-> text, confidence |-> 0]
    ELSE IF gen.raises THEN [text |-> text, confidence |-> 0]
    ELSE [text |-> gen.corrected,
          confidence |-> Min(IF gen.has_scores THEN gen.confidence ELSE DefaultMlConfidence,
                             FullConfidence)]

(* difflib.SequenceMatcher(None, a, b) over word lists, with Python's 0-based
   half-open ranges: a[i] is the model's a[i + 1].  Below 200 words no word
   is junk. *)

\* The length of the common run of a from i and b from j.
RECURSIVE CommonRun(_, _, _, _, _, _)
CommonRun(a, b, i, j, ahi, bhi) ==
    IF i < ahi /\ j < bhi /\ a[i + 1] = b[j + 1]
    THEN 1 + CommonRun(a, b, i + 1, j + 1, ahi, bhi) ELSE 0

\* find_longest_match: of the longest matching blocks the one that starts
\* earliest in a, and of those the one that starts earliest in b.
find_longest_match(a, b, alo, ahi, blo, bhi) ==
    LET starts == (alo..(ahi - 1)) \X (blo..(bhi - 1))
        run(p) == CommonRun(a, b, p[1], p[2], ahi, bhi)
        before(p, q) == \/ run(p) > run(q)
                        \/ run(p) = run(q) /\ p[1] < q[1]
                        \/ run(p) = run(q) /\ p[1] = q[1] /\ p[2] <= q[2]
    IN IF starts = {} THEN <<alo, blo, 0>>
       ELSE LET best == CHOOSE p \in starts : \A q \in starts : before(p, q)
            IN IF run(best) = 0 THEN <<alo, blo, 0>> ELSE <<best[1], best[2], run(best)>>

RECURSIVE MatchingBlocks(_, _, _, _, _, _)
MatchingBlocks(a, b, alo, ahi, blo, bhi) ==
    LET m == find_longest_match(a, b, alo, ahi, blo, bhi) IN
    IF m[3] = 0 THEN <<>>
    ELSE MatchingBlocks(a, b, alo, m[1], blo, m[2])
         \o <<m>>
         \o MatchingBlocks(a, b, m[1] + m[3], ahi, m[2] + m[3], bhi)

\* Adjacent blocks collapse into one.
RECURSIVE Collapse(_)
Collapse(blocks) ==
    IF Len(blocks) <= 1 THEN blocks
    ELSE LET x == blocks[1]
             y == blocks[2]
         IN IF x[1] + x[3] = y[1] /\ x[2] + x[3] = y[2]
            THEN Collapse(<<<<x[1], x[2], x[3] + y[3]>>>> \o SubSeq(blocks, 3, Len(blocks)))
            ELSE <<x>> \o Collapse(Tail(blocks))

get_matching_blocks(a, b) ==
    Collapse(MatchingBlocks(a, b, 0, Len(a), 0, Len(b))) \o <<<<Len(a), Len(b), 0>>>>

\* get_opcodes: <<tag, i1, i2, j1, j2>>
RECURSIVE Opcodes(_, _, _, _)
Opcodes(blocks, n, i, j) ==
    IF n > Len(blocks) THEN <<>>
    ELSE LET ai == blocks[n][1]
             bj == blocks[n][2]
             size == blocks[n][3]
             tag == IF i < ai /\ j < bj THEN "replace"
                    ELSE IF i < ai THEN "delete"
                    ELSE IF j < bj THEN "insert"
                    ELSE ""
         IN (IF tag # "" THEN <<<<tag, i, ai, j, bj>>>> ELSE <<>>)
            \o (IF size > 0 THEN <<<<"equal", ai, ai + size, bj, bj + size>>>> ELSE <<>>)
            \o Opcodes(blocks, n + 1, ai + size, bj + size)

get_opcodes(a, b) == Opcodes(get_matching_blocks(a, b), 1, 0, 0)

\* ' '.join(words[i1:i2])
Span(words, i1, i2) == Join(SubSeq(words, i1 + 1, i2))

\* The differences with every block recorded as a replace
_find_differences_as_replace(original, corrected) ==
    LET orig_words == Split(original)
        corr_words == Split(corrected)
        edits == SelectSeq(get_opcodes(orig_words, corr_words), LAMBDA op : op[1] # "equal")
    IN [n \in 1..Len(edits) |->
           CorrectionChange(Span(orig_words, edits[n][2], edits[n][3]),
                            Span(corr_words, edits[n][4], edits[n][5]),
                            "word_choice", ReplaceConfidence, "ML: replaced")]

_find_differences(original, corrected) ==
    LET orig_words == Split(original)
        corr_words == Split(corrected)
        change(op) ==
            LET before == Span(orig_words, op[2], op[3])
                after == Span(corr_words, op[4], op[5])
            IN IF op[1] = "replace"
               THEN CorrectionChange(before, after, "word_choice", ReplaceConfidence,
                                     "ML: '" \o before \o "' → '" \o after \o "'")
               ELSE IF op[1] = "delete"
               THEN CorrectionChange(before, "", "grammar", InsertDeleteConfidence,
                                     "ML: Removed '" \o before \o "'")
               ELSE CorrectionChange("", after, "grammar", InsertDeleteConfidence,
                                     "ML: Added '" \o after \o "'")
        edits == SelectSeq(get_opcodes(orig_words, corr_words), LAMBDA op : op[1] # "equal")
    IN [n \in 1..Len(edits) |-> change(edits[n])]

\* re.sub(r'([.!?])\s*([A-Z])', r'\1 \2', text), case-sensitive
SentenceJoint == One(SentenceEnd) \o Rep(Whitespace, 0) \o One(UpperSet)

\* The clean-up that also puts a blank after the capital
_final_cleanup_padded(text) ==
    Sub(SentenceJoint, FALSE, "\\1 \\2 ", Strip(CollapseWhitespace(text)))

_final_cleanup(text) ==
    Sub(SentenceJoint, FALSE, "\\1 \\2", Strip(CollapseWhitespace(text)))

RECURSIVE Sum(_)
Sum(ns) == IF ns = <<>> THEN 0 ELSE Head(ns) + Sum(Tail(ns))

\* The confidence lists whose float mean, an exact half thousandth on paper,
\* lies at or above it in binary floating point (summed left to right), so
\* that round(.., 3) goes up; on every other such list it goes down.
HalfRoundsUp ==
    { <<850, 850, 800, 850>>, <<850, 800, 850, 850>>, <<800, 850, 850, 850>>,
      <<800, 800, 800, 850>>, <<1000, 850, 850, 850>>, <<1000, 850, 800, 800>>,
      <<1000, 800, 850, 800>>, <<1000, 800, 800, 850>>, <<1000, 1000, 850, 800>>,
      <<1000, 1000, 1000, 850>>,
      <<1000, 850, 800, 850, 800, 800, 800, 800>> }

\* Whether total / n is an exact half thousandth
IsHalf(total, n) == (2 * total) % n = 0 /\ ((2 * total) \div n) % 2 = 1

\* The sum that is not divided by the number of changes
Total(confidences) == Sum(confidences)

\* round(sum(confidences) / len(confidences), 3), confidences in thousandths
Mean(confidences) ==
    IF IsHalf(Sum(confidences), Len(confidences)) /\ confidences \notin HalfRoundsUp
    THEN Sum(confidences) \div Len(confidences)
    ELSE (2 * Sum(confidences) + Len(confidences)) \div (2 * Len(confidences))

\* What a call leaves behind: nothing yet, an exception, or a value.
Pending == [state |-> "pending"]
Raised(exception) == [state |-> "raised", exception |-> exception]

\* The generative collaborator was not reached.
NoGeneration == [raises |-> FALSE, corrected |-> "", has_scores |-> FALSE, confidence |-> 0]

\* The texts callers pass: the scenarios of the specification and of the
\* tests, texts that trigger each table, and None.
Texts ==
    { "", None,
      "magandang   umaga po  .  ito ay tungkol sa punction",
      "dis is a example wit bery bad punction",
      "commustaka po sa inyong lahat",
      "This is perfectly correct.",
      "combat bat",
      "the ho is a error",
      "nang ay yung klase",
      "ang data is here . ok",
      "hello world",
      "dat alue pormula" }

LanguageHints == {None, "", "en", "tl", "fr"}

\* The language labels a rule pass can run under: what _detect_language
\* returns and the hints that are used as given.
Labels == {"en", "tl", "mixed"} \cup (LanguageHints \ {None, ""})

\* self.rules.apply_rules(text, language) of the stock tables for the texts
\* and labels above, computed once: the rule engine is deterministic and
\* keeps no state between calls.
RulePass ==
    [text \in Texts \ {None}, language \in Labels |->
        apply_rules(CorrectionRules, text, language)]

\* language = config.language_hint or self._detect_language(text)
LanguageOf(text, config) ==
    IF config.language_hint \in {None, ""} THEN _detect_language(text)
    ELSE config.language_hint

\* self.rules.apply_rules(corrected_text, language)
RulePassOf(self, text, language) ==
    IF self.rules = CorrectionRules /\ <<text, language>> \in DOMAIN RulePass
    THEN RulePass[text, language]
    ELSE apply_rules(self.rules, text, language)

\* One CorrectionChange per description the rule engine returned.
RuleChanges(language, applied) ==
    IF applied.raised # "" THEN Raised(applied.raised)
    ELSE [state |-> "ok", language |-> language, text |-> applied.text,
          changes |-> [n \in 1..Len(applied.changes) |->
              CorrectionChange("", "", _classify_error_type(applied.changes[n]),
                               RuleConfidence, applied.changes[n])]]

\* Step 2 of correct(): None has no len() (apply_rules).
RuleStep(self, text, config, language) ==
    IF ~config.use_rules
    THEN [state |-> "ok", language |-> language, text |-> text, changes |-> <<>>]
    ELSE IF text = None THEN Raised("TypeError")
    ELSE RuleChanges(language, RulePassOf(self, text, language))

\* correct(), steps 1 and 2: the language and the rule engine's pass.
\* None has no lower() (_detect_language).
correct_rules(self, text, config) ==
    IF text = None /\ config.language_hint \in {None, ""} THEN Raised("AttributeError")
    ELSE RuleStep(self, text, config, LanguageOf(text, config))

\* Whether correct() enters step 3 and calls _ml_correct.
MlPassRuns(self, config) == config.use_ml /\ self.use_ml /\ self.ml_model # None

\* Whether _ml_correct reaches the collaborator: building the prompt from
\* None raises TypeError inside its try block first.
ReachesCollaborator(self, config, ruled) ==
    ruled.state = "ok" /\ MlPassRuns(self, config) /\ ruled.text # None

\* The test of step 3 with > for >=.
AdoptsStrictly(ml, config, corrected_text) ==
    ml.confidence > config.min_confidence /\ ml.text # corrected_text

\* if ml_confidence >= config.min_confidence and ml_corrected != corrected_text
Adopts(ml, config, corrected_text) ==
    ml.confidence >= config.min_confidence /\ ml.text # corrected_text

\* The method with config.use_rules tested first.
MethodByConfig(self, config) ==
    IF ~config.use_rules THEN "ml"
    ELSE IF ~self.use_ml THEN "rules"
    ELSE "hybrid"

\* method = "rules" if not self.use_ml else ("ml" if not config.use_rules else "hybrid")
MethodOf(self, config) ==
    IF ~self.use_ml THEN "rules"
    ELSE IF ~config.use_rules THEN "ml"
    ELSE "hybrid"

\* self._ml_correct(corrected_text, language, config.level); building the
\* prompt from None raises TypeError inside its try block.
MlOutcome(self, config, ruled, gen) ==
    IF ruled.text = None THEN [text |-> None, confidence |-> 0]
    ELSE _ml_correct(self, ruled.text, ruled.language, config.level, gen)

\* Step 3 of correct(): the text and the changes after the generative pass
\* gave ml, if it ran.
Merge(self, config, ruled, ml) ==
    IF MlPassRuns(self, config) /\ Adopts(ml, config, ruled.text)
    THEN [text |-> ml.text,
          changes |-> ruled.changes \o _find_differences(ruled.text, ml.text)]
    ELSE [text |-> ruled.text, changes |-> ruled.changes]

\* The confidence that never credits an unchanged text
ConfidenceNeverFull(text, corrected_text, changes) ==
    IF changes # <<>>
    THEN Mean([n \in 1..Len(changes) |-> changes[n].confidence])
    ELSE UnexplainedConfidence

\* The mean of the changes' confidences, or 1.0 or 0.8 without changes.
Confidence(text, corrected_text, changes) ==
    IF changes # <<>>
    THEN Mean([n \in 1..Len(changes) |-> changes[n].confidence])
    ELSE IF corrected_text = text THEN FullConfidence
    ELSE UnexplainedConfidence

\* The CorrectionResult.
CorrectionResult(self, text, config, language, changes, corrected_text) ==
    [state |-> "returned",
     original_text |-> text,
     corrected_text |-> corrected_text,
     changes |-> changes,
     confidence_score |-> Confidence(text, corrected_text, changes),
     method |-> MethodOf(self, config),
     language |-> language]

\* Step 4 of correct(): None has no whitespace to collapse (_final_cleanup).
Conclude(self, text, config, language, merged) ==
    IF merged.text = None THEN Raised("TypeError")
    ELSE CorrectionResult(self, text, config, language, merged.changes,
                          _final_cleanup(merged.text))

\* correct(), steps 3 and 4 and the result, after steps 1 and 2 gave ruled.
correct_finish(self, text, config, ruled, gen) ==
    IF ruled.state = "raised" THEN ruled
    ELSE Conclude(self, text, config, ruled.language,
                  Merge(self, config, ruled, MlOutcome(self, config, ruled, gen)))

\* correct(text, config) when the collaborator, if reached, does gen.
correct(self, text, config, gen) ==
    correct_finish(self, text, config, correct_rules(self, text, config), gen)

---------------------------------------------------------------------------
(***************************************************************************)
(* The corrector in use: a constructed ErrorCorrector receives one call of *)
(* correct(text, config); the generative collaborator, when the call       *)
(* reaches it, answers as it chooses.                                      *)
(***************************************************************************)

\* correct_batch that returns the results in the reverse order of the texts
correct_batch_reversed(self, texts, config, gens) ==
    [i \in 1..Len(texts) |->
        correct(self, texts[Len(texts) + 1 - i], config, gens[Len(texts) + 1 - i])]

\* correct_batch(texts, config) when the collaborator, if reached for the
\* i-th text, does gens[i]: the results in the order of the texts.
correct_batch(self, texts, config, gens) ==
    [i \in 1..Len(texts) |-> correct(self, texts[i], config, gens[i])]

\* A corrector whose lexicon lost its first entry
SelfWithoutFirstEntry(self) == [self EXCEPT !.rules.common_errors = Tail(@)]

\* The corrector after a call of correct, correct_batch, _detect_language
\* or rules.apply_rules: none of them assigns to an attribute of self or of
\* self.rules, nor changes the rule list, the word splits or the lexicon.
SelfAfter(self) == self

MinConfidences == {0, 700, 900}

Configs ==
    {CorrectionConfig(level, use_rules, use_ml, hint, min_confidence) :
        level \in CorrectionLevel, use_rules \in BOOLEAN, use_ml \in BOOLEAN,
        hint \in LanguageHints, min_confidence \in MinConfidences}

\* The rewrites the collaborator may decode for a text: the text itself, the
\* text with trailing whitespace, the text with a word added, another text.
Rewrites(text) ==
    {text, text \o " ", Join(Split(text) \o <<"po">>), "Magandang umaga. Salamat po"}

\* exp(sequences_scores[0]), in thousandths
Scores == {500, 700, 1000}

Generations(self, config, ruled) ==
    IF ~ReachesCollaborator(self, config, ruled) THEN {NoGeneration}
    ELSE {[raises |-> TRUE, corrected |-> "", has_scores |-> FALSE, confidence |-> 0]}
         \cup {[raises |-> FALSE, corrected |-> rewrite, has_scores |-> TRUE,
                confidence |-> score] : rewrite \in Rewrites(ruled.text), score \in Scores}
         \cup {[raises |-> FALSE, corrected |-> rewrite, has_scores |-> FALSE,
                confidence |-> 0] : rewrite \in Rewrites(ruled.text)}

Correctors == {ErrorCorrectorInit(use_ml, deps, load_ok) : use_ml, deps, load_ok \in BOOLEAN}

Init ==
    /\ corrector \in Correctors
    /\ request \in {[op |-> "correct", text |-> text, config |-> config] :
                       text \in Texts, config \in Configs}
    /\ result = Pending

\* What the call left, with a record of whether it called _ml_correct and
\* of what the collaborator did.
Observed(outcome, invoked, gen) ==
    outcome @@ [ml_invoked |-> invoked, generated |-> gen]

\* The rest of the call after steps 1 and 2 gave ruled: the collaborator,
\* if reached, does gen.
Finish(ruled) ==
    \E gen \in Generations(corrector, request.config, ruled) :
        result' = Observed(correct_finish(corrector, request.text, request.config, ruled, gen),
                           ruled.state = "ok" /\ MlPassRuns(corrector, request.config),
                           gen)

\* corrector.correct(request.text, request.config)
Correct ==
    /\ request.op = "correct"
    /\ result = Pending
    /\ Finish(correct_rules(corrector, request.text, request.config))
    /\ corrector' = SelfAfter(corrector)
    /\ UNCHANGED request

Next == Correct

Spec == Init /\ [][Next]_vars

---------------------------------------------------------------------------
(***************************************************************************)
(* The rule engine with a rule list a caller extended: rules is a plain    *)
(* list attribute of CorrectionRules, and CorrectionRule a public          *)
(* dataclass.  One call of apply_rules(text, language) follows.            *)
(***************************************************************************)

\* The rules a caller adds: one whose pattern text re.compile rejects, one
\* whose template names a group its pattern lacks, and a sound one.
CustomRules ==
    { CorrectionRule(Malformed, "x", "Unbalanced parenthesis", "both"),
      CorrectionRule(WB \o L("bery") \o WB, "\\2", "Missing group", "en"),
      CorrectionRule(WB \o L("klase") \o WB, "class", "klase -> class", "tl") }

\* rules.insert(at, rule)
Insert(rules, at, rule) ==
    SubSeq(rules, 1, at) \o <<rule>> \o SubSeq(rules, at + 1, Len(rules))

\* The places the rule is added at: the front, the middle, the end (append).
InsertionPoints == {0, Len(_load_rules) \div 2, Len(_load_rules)}

\* The tables as constructed, and with one rule added.
RuleTables ==
    {CorrectionRules} \cup
    {[CorrectionRules EXCEPT !.rules = Insert(@, at, rule)] :
        at \in InsertionPoints, rule \in CustomRules}

RuleTexts ==
    { "", "hello world", "a bery bad klase", "the ho is a error",
      "nang ay yung klase", "ang data is here . ok",
      "nang sapat na data", " hello world", "dat alue pormula",
      "dis is a example wit bery bad punction",
      "commustaka po sa inyong lahat", "Kapo COMMUSTAKA kapo. ok",
      "bery PO bery po" }

\* The language argument: a detected label or apply_rules' default, 'both'.
RuleLanguages == {"en", "tl", "mixed", "both"}

InitRules ==
    /\ corrector \in {[rules |-> table, use_ml |-> FALSE, ml_model |-> None] :
                         table \in RuleTables}
    /\ request \in {[op |-> "apply_rules", text |-> text, language |-> language] :
                       text \in RuleTexts, language \in RuleLanguages}
    /\ result = Pending

\* What apply_rules leaves: the exception, or the tuple it returns.
Outcome(applied) ==
    IF applied.raised # "" THEN Raised(applied.raised)
    ELSE [state |-> "returned", text |-> applied.text, changes |-> applied.changes]

\* corrector.rules.apply_rules(request.text, request.language)
ApplyRules ==
    /\ request.op = "apply_rules"
    /\ result = Pending
    /\ result' = Outcome(apply_rules(corrector.rules, request.text, request.language))
    /\ corrector' = SelfAfter(corrector)
    /\ UNCHANGED request

NextRules == ApplyRules

SpecRules == InitRules /\ [][NextRules]_vars

---------------------------------------------------------------------------
(***************************************************************************)
(* The language detector alone: one call of _detect_language(text) on a    *)
(* text of up to MaxWords tokens.                                          *)
(***************************************************************************)

MaxWords == 5

\* Tokens: a Tagalog marker, one in capitals, an English marker in mixed
\* case, and a word of neither set.
Vocabulary == {"ang", "PO", "The", "klase"}

\* What separates the tokens: one space, or a run of whitespace.
Separators == {" ", " \t\n"}

RECURSIVE JoinWith(_, _)
JoinWith(words, separator) ==
    IF words = <<>> THEN ""
    ELSE IF Len(words) = 1 THEN words[1]
    ELSE words[1] \o separator \o JoinWith(Tail(words), separator)

TokenTexts ==
    UNION {{JoinWith(words, separator) : words \in [1..n -> Vocabulary],
                                         separator \in Separators} : n \in 0..MaxWords}

InitDetect ==
    /\ corrector = ErrorCorrectorInit(FALSE, FALSE, FALSE)
    /\ request \in {[op |-> "_detect_language", text |-> text] : text \in TokenTexts}
    /\ result = Pending

\* corrector._detect_language(request.text)
DetectLanguage ==
    /\ request.op = "_detect_language"
    /\ result = Pending
    /\ result' = [state |-> "returned", language |-> _detect_language(request.text)]
    /\ corrector' = SelfAfter(corrector)
    /\ UNCHANGED request

NextDetect == DetectLanguage

SpecDetect == InitDetect /\ [][NextDetect]_vars

---------------------------------------------------------------------------
(* One corrector called again and again: correct, correct_batch,           *)
(* rules.apply_rules and _detect_language in any order.                    *)

CallTexts ==
    {"hello world", "the ho is a error", "commustaka po sa inyong lahat", "anoba ho dis"}

CallConfigs ==
    {CorrectionConfig("standard", use_rules, use_ml, None, 700) :
        use_rules \in BOOLEAN, use_ml \in BOOLEAN}

\* The lists correct_batch is given: none, one or two of the texts.
CallBatches ==
    {<<>>} \cup {<<text>> : text \in CallTexts}
           \cup {<<"the ho is a error", text>> : text \in CallTexts}

\* The calls that process a transcript.
CorrectCalls ==
    {[op |-> "correct", text |-> text, config |-> config] :
        text \in CallTexts, config \in CallConfigs}
    \cup {[op |-> "correct_batch", texts |-> texts, config |-> config] :
            texts \in CallBatches, config \in CallConfigs}

\* The calls of the rule engine and of the language detection.
EngineCalls ==
    {[op |-> "apply_rules", text |-> text, language |-> language] :
        text \in CallTexts, language \in RuleLanguages}
    \cup {[op |-> "_detect_language", text |-> text] : text \in CallTexts}

\* A corrector without and one with the generative model, and its first
\* call, which corrects a transcript.
InitCalls ==
    /\ corrector \in {ErrorCorrectorInit(FALSE, FALSE, FALSE),
                       ErrorCorrectorInit(TRUE, TRUE, TRUE)}
    /\ request \in CorrectCalls
    /\ result = Pending

\* What the collaborator may do for one text of the batch.
GenerationsFor(text) ==
    Generations(corrector, request.config,
                correct_rules(corrector, text, request.config))

\* What correct_batch leaves: the first exception of a correct() call, or
\* the list of the results.
BatchOutcome(results) ==
    IF \E i \in 1..Len(results) : results[i].state = "raised"
    THEN results[CHOOSE i \in 1..Len(results) :
                    /\ results[i].state = "raised"
                    /\ \A j \in 1..(i - 1) : results[j].state # "raised"]
    ELSE [state |-> "returned", results |-> results]

\* corrector.correct_batch(request.texts, request.config)
CorrectBatch ==
    /\ request.op = "correct_batch"
    /\ result = Pending
    /\ \E gens \in [1..Len(request.texts) ->
                       UNION {GenerationsFor(text) : text \in CallTexts}] :
          /\ \A i \in 1..Len(request.texts) : gens[i] \in GenerationsFor(request.texts[i])
          /\ result' = BatchOutcome(correct_batch(corrector, request.texts,
                                                  request.config, gens))
    /\ corrector' = SelfAfter(corrector)
    /\ UNCHANGED request

\* The caller takes the result and makes its next call.
NextCall ==
    /\ result # Pending
    /\ request' \in CorrectCalls \cup EngineCalls
    /\ result' = Pending
    /\ UNCHANGED corrector

NextCalls == Correct \/ CorrectBatch \/ ApplyRules \/ DetectLanguage \/ NextCall

SpecCalls == InitCalls /\ [][NextCalls]_vars

---------------------------------------------------------------------------
(* _final_cleanup and rules.apply_rules on every short text of blanks,     *)
(* full stops and letters; a result can be passed in again.                *)

MaxLen == 4

Alphabet == {" ", ".", "a", "B"}

ShortTexts == UNION {{Concat(chars) : chars \in [1..n -> Alphabet]} : n \in 0..MaxLen}

InitTexts ==
    /\ corrector = ErrorCorrectorInit(FALSE, FALSE, FALSE)
    /\ request \in {[op |-> "_final_cleanup", text |-> text] : text \in ShortTexts}
                  \cup {[op |-> "apply_rules", text |-> text, language |-> language] :
                           text \in ShortTexts, language \in RuleLanguages}
    /\ result = Pending

\* corrector._final_cleanup(request.text)
FinalCleanup ==
    /\ request.op = "_final_cleanup"
    /\ result = Pending
    /\ result' = [state |-> "returned", text |-> _final_cleanup(request.text)]
    /\ corrector' = SelfAfter(corrector)
    /\ UNCHANGED request

\* The same operation is called on the text it returned.
Again ==
    /\ request.op \in {"_final_cleanup", "apply_rules"}
    /\ result # Pending
    /\ result.state = "returned"
    /\ result.text # request.text
    /\ request' = [request EXCEPT !.text = result.text]
    /\ result' = Pending
    /\ UNCHANGED corrector

NextTexts == FinalCleanup \/ ApplyRules \/ Again

SpecTexts == InitTexts /\ [][NextTexts]_vars

---------------------------------------------------------------------------
(* _find_differences on every pair of short token lists.                   *)

MaxTokens == 3

Tokens == {"ang", "klase", "po"}

TokenLists == UNION {[1..n -> Tokens] : n \in 0..MaxTokens}

InitDiff ==
    /\ corrector = ErrorCorrectorInit(FALSE, FALSE, FALSE)
    /\ request \in {[op |-> "_find_differences", original |-> Join(before),
                      corrected |-> Join(after)] :
                         before \in TokenLists, after \in TokenLists}
    /\ result = Pending

\* corrector._find_differences(request.original, request.corrected)
FindDifferences ==
    /\ request.op = "_find_differences"
    /\ result = Pending
    /\ result' = [state |-> "returned",
                  changes |-> _find_differences(request.original, request.corrected)]
    /\ corrector' = SelfAfter(corrector)
    /\ UNCHANGED request

NextDiff == FindDifferences

SpecDiff == InitDiff /\ [][NextDiff]_vars

---------------------------------------------------------------------------
(* webapp/api.py: POST /correct.  corrector is the module's global         *)
(* error_corrector, None until the first request builds it.  The server    *)
(* has the ML dependencies and the model loads.                            *)

ApiTexts == {"hello world", "the ho is a error", "commustaka po sa inyong lahat"}

\* AutoCorrectionRequest
AutoCorrectionRequests ==
    {[op |-> "POST /correct", text |-> text, language |-> language,
      level |-> level, use_ml |-> use_ml] :
        text \in ApiTexts, language \in {None, "tl"},
        level \in {"standard", "thorough"}, use_ml \in BOOLEAN}

\* error_corrector = None, the global before the first request
NoCorrector == [state |-> "None"]

\* get_error_corrector(use_ml): the global, built on the first call
get_error_corrector(global, use_ml) ==
    IF "rules" \notin DOMAIN global THEN ErrorCorrectorInit(use_ml, TRUE, TRUE)
    ELSE global

\* level_map.get(request.level, CorrectionLevel.STANDARD)
LevelOf(level) == IF level \in CorrectionLevel THEN level ELSE "standard"

\* The CorrectionConfig the handler builds for a request.
ConfigOf(req) ==
    CorrectionConfig(LevelOf(req.level), TRUE, req.use_ml, req.language,
                     DefaultConfig.min_confidence)

\* The response: the fields of the result, or status 500 for an exception.
AutoCorrectionResponse(outcome) ==
    IF outcome.state = "raised" THEN Raised("HTTPException") ELSE outcome

\* The handler after get_error_corrector gave self and steps 1 and 2 of
\* correct() gave ruled.
Respond(self, config, ruled) ==
    \E gen \in Generations(self, config, ruled) :
        result' = Observed(AutoCorrectionResponse(
                               correct_finish(self, request.text, config, ruled, gen)),
                           ruled.state = "ok" /\ MlPassRuns(self, config), gen)

\* The handler after get_error_corrector gave self.
Serve(self) ==
    /\ corrector' = SelfAfter(self)
    /\ Respond(self, ConfigOf(request), correct_rules(self, request.text, ConfigOf(request)))

\* auto_correct_text(request)
AutoCorrectText ==
    /\ request.op = "POST /correct"
    /\ result = Pending
    /\ Serve(get_error_corrector(corrector, request.use_ml))
    /\ UNCHANGED request

\* The next request arrives.
NextRequest ==
    /\ result # Pending
    /\ request' \in AutoCorrectionRequests
    /\ result' = Pending
    /\ UNCHANGED corrector

InitApi ==
    /\ corrector = NoCorrector
    /\ request \in AutoCorrectionRequests
    /\ result = Pending

NextApi == AutoCorrectText \/ NextRequest

SpecApi == InitApi /\ [][NextApi]_vars

---------------------------------------------------------------------------
(***************************************************************************)
(* Properties of correct(), stated of the call the state records: request  *)
(* is what was passed, result what came back, result.generated what the    *)
(* collaborator did when the call reached it.                              *)
(***************************************************************************)

Returned == result.state = "returned"

\* The rule-engine output the generative pass started from.
RuleOutput == correct_rules(corrector, request.text, request.config)

\* What the generative pass reported: a failure is the text unchanged with
\* confidence 0; without scores the confidence is 0.8; never above 1.
GenerativeText ==
    IF result.generated.raises THEN RuleOutput.text ELSE result.generated.corrected

GenerativeConfidence ==
    IF result.generated.raises THEN 0
    ELSE IF ~result.generated.has_scores THEN DefaultMlConfidence
    ELSE Min(result.generated.confidence, FullConfidence)

\* The change records a generative diff contributes.
IsGenerativeChange(change) == SubSeq(change.description, 1, 4) = "ML: "

\* The same call on a corrector, or with a config, that keeps the
\* generative pass out.
RulesOnlyCorrection ==
    correct(corrector, request.text, [request.config EXCEPT !.use_ml = FALSE], NoGeneration)

\* C1: when the generative pass runs, the rewrite is adopted if and only if
\* its confidence is at least config.min_confidence and it differs from the
\* current text; adopted, the diff changes are appended and corrected_text
\* is _final_cleanup(rewrite); otherwise corrected_text and the changes are
\* those of the rule-engine output after the final clean-up.
C1_RewriteAdoptedIffConfidentAndDifferent ==
    (Returned /\ result.ml_invoked) =>
        IF /\ GenerativeConfidence >= request.config.min_confidence
           /\ GenerativeText # RuleOutput.text
        THEN /\ result.corrected_text = _final_cleanup(GenerativeText)
             /\ result.changes =
                    RuleOutput.changes \o _find_differences(RuleOutput.text, GenerativeText)
        ELSE /\ result.corrected_text = _final_cleanup(RuleOutput.text)
             /\ result.changes = RuleOutput.changes

\* A rewrite whose confidence equals the threshold was adopted and its diff
\* recorded.
C1_Witness ==
    /\ Returned /\ result.ml_invoked
    /\ result.generated.has_scores
    /\ result.generated.confidence = request.config.min_confidence
    /\ \E n \in DOMAIN result.changes : IsGenerativeChange(result.changes[n])

\* C2: the method reflects which sources contributed: a rewrite of
\* confidence 0.5 discarded under min_confidence 0.7 with rules enabled
\* gives method 'rules', and method 'hybrid' is reported only when an
\* adopted rewrite and the rule engine both contributed.
C2_MethodReflectsContribution ==
    Returned =>
        /\ ( /\ request.config.use_rules /\ result.ml_invoked
             /\ result.generated.has_scores /\ result.generated.confidence = 500
             /\ request.config.min_confidence = 700 ) => result.method = "rules"
        /\ result.method = "hybrid" =>
               /\ request.config.use_rules
               /\ result.ml_invoked
               /\ GenerativeConfidence >= request.config.min_confidence
               /\ GenerativeText # RuleOutput.text

\* C3: a corrector without a loaded collaborator (use_ml=False, missing
\* dependencies, or a load error) returns method 'rules' from every call
\* and never invokes the generative pass.
C3_NoCollaboratorMeansRulesOnly ==
    (corrector.ml_model = None /\ Returned) =>
        result.method = "rules" /\ ~result.ml_invoked

\* Such a corrector answered a call whose config asks for the generative
\* pass.
C3_Witness ==
    /\ corrector.ml_model = None
    /\ request.config.use_ml
    /\ Returned /\ result.method = "rules"

\* With config.use_rules false the call made no rule pass: no record that
\* is not a generative one, and without any record the text is the input
\* after the final clean-up.
NoRulePass ==
    /\ \A n \in DOMAIN result.changes : IsGenerativeChange(result.changes[n])
    /\ result.changes = <<>> => result.corrected_text = _final_cleanup(request.text)

\* C4 as stated: with config.use_rules false there is no rule pass, no
\* rule-derived change record, and the method is 'ml' whether or not the
\* collaborator is available.
C4_RulesOffMeansMl ==
    (Returned /\ ~request.config.use_rules) =>
        NoRulePass /\ result.method = "ml"

\* C4: with config.use_rules false there is no rule pass and no
\* rule-derived change record; the method is 'ml' when the corrector has
\* its collaborator and 'rules' when it has none.
C4_RulesOffMeansMlIfAvailable ==
    (Returned /\ ~request.config.use_rules) =>
        /\ NoRulePass
        /\ result.method = IF corrector.use_ml THEN "ml" ELSE "rules"

\* Rules were off, on a corrector without collaborator, for a text the rule
\* engine would have changed.
C4_Witness ==
    /\ Returned /\ ~request.config.use_rules
    /\ ~corrector.use_ml
    /\ request.text = "the ho is a error"
    /\ result.corrected_text = request.text
    /\ result.method = "rules"

\* C5: when the collaborator raises, correct() still returns, and for every
\* min_confidence, 0 included, the corrected_text, the changes and the
\* confidence_score are those of the rules-only correction of the text.
C5_GenerativeFailureFallsBackToRules ==
    (result.state # "pending" /\ result.generated.raises) =>
        /\ Returned
        /\ result.corrected_text = RulesOnlyCorrection.corrected_text
        /\ result.changes = RulesOnlyCorrection.changes
        /\ result.confidence_score = RulesOnlyCorrection.confidence_score

\* The collaborator raised in a call with min_confidence 0 whose rule pass
\* had made changes.
C5_Witness ==
    /\ Returned /\ result.generated.raises
    /\ request.config.min_confidence = 0
    /\ result.changes # <<>>

\* C6: correct() with empty or None text never raises: it returns the
\* input as corrected_text, no changes and confidence_score 1.0.
C6_EmptyOrNoneIsIdentity ==
    (request.text \in {"", None} /\ result.state # "pending") =>
        /\ Returned
        /\ result.corrected_text = request.text
        /\ result.changes = <<>>
        /\ result.confidence_score = FullConfidence

\* C8: a non-empty language_hint other than 'en' and 'tl' falls back to the
\* detected language: result.language is _detect_language(text) and the
\* rules that fire are those that fire without a hint.
C8_UnknownHintFallsBackToDetection ==
    (Returned /\ request.config.language_hint \notin {None, "", "en", "tl"}) =>
        /\ result.language = _detect_language(request.text)
        /\ ~result.ml_invoked =>
               result.changes =
                   correct(corrector, request.text,
                           [request.config EXCEPT !.language_hint = None],
                           NoGeneration).changes

\* C10 as stated: the text of the third scenario, without a hint, is
\* reported as Mixed.
C10_ScenarioIsMixed ==
    ( /\ Returned
      /\ request.text = "magandang   umaga po  .  ito ay tungkol sa punction"
      /\ request.config.language_hint \in {None, ""} ) => result.language = "mixed"

\* C10: the text of the third scenario, without a hint, is reported as
\* Tagalog: it has three Tagalog markers (po, ay, sa) and no English one.
C10_ScenarioIsTagalog ==
    ( /\ Returned
      /\ request.text = "magandang   umaga po  .  ito ay tungkol sa punction"
      /\ request.config.language_hint \in {None, ""} ) => result.language = "tl"

\* The scenario ran with rules on and no hint, and the rule engine fixed
\* the spacing and the word.
C10_Witness ==
    /\ Returned
    /\ request.text = "magandang   umaga po  .  ito ay tungkol sa punction"
    /\ request.config.language_hint = None
    /\ request.config.use_rules
    /\ result.corrected_text = "Magandang umaga po. Ito ay tungkol sa function"

---------------------------------------------------------------------------
(* Properties of apply_rules on an extended rule list. *)

\* A rule whose pattern does not compile or whose template cannot be
\* expanded against its pattern.
Faulty(rule) ==
    CompileRaises(rule.pattern) \/ SubRaises(rule.pattern, rule.replacement)

\* The rule list without its faulty rules.
SoundRules(self) ==
    [self EXCEPT !.rules = SelectSeq(@, LAMBDA rule : ~Faulty(rule))]

\* C7: a pattern rule that fails to compile or whose substitution raises is
\* skipped: apply_rules does not raise, the other eligible rules are
\* applied in order, and the capitalization and whitespace passes run.
C7_FaultyRuleIsSkipped ==
    (request.op = "apply_rules" /\ result.state # "pending") =>
        /\ Returned
        /\ result = Outcome(apply_rules(SoundRules(corrector.rules),
                                        request.text, request.language))

---------------------------------------------------------------------------
(* Properties of _detect_language. *)

\* The counts of the tokens of the request's text in the two marker sets.
TagalogCount == Count(Split(Lower(request.text)), tagalog_markers)
EnglishCount == Count(Split(Lower(request.text)), english_markers)

\* C9: _detect_language returns Tagalog iff tl > 1.5 * en, English iff
\* en > 1.5 * tl, and Mixed in every other case; the two conditions never
\* hold together, and the empty text is Mixed.
C9_DetectionThresholds ==
    (request.op = "_detect_language" /\ Returned) =>
        /\ result.language = "tl" <=> 2 * TagalogCount > 3 * EnglishCount
        /\ result.language = "en" <=> 2 * EnglishCount > 3 * TagalogCount
        /\ result.language = "mixed" <=>
               ~(2 * TagalogCount > 3 * EnglishCount) /\ ~(2 * EnglishCount > 3 * TagalogCount)
        /\ ~(2 * TagalogCount > 3 * EnglishCount /\ 2 * EnglishCount > 3 * TagalogCount)
        /\ request.text = "" => result.language = "mixed"

\* Three Tagalog markers against two English ones, exactly 1.5 times as
\* many, were reported as Mixed.
C9_Witness ==
    /\ request.op = "_detect_language" /\ Returned
    /\ TagalogCount = 3 /\ EnglishCount = 2
    /\ result.language = "mixed"

\* The rules the language label leaves eligible: under English none tagged
\* Tagalog, under Tagalog none tagged English, under Mixed or Both all of
\* them; a rule tagged Both under every label.
EligibleUnder(rule, label) ==
    \/ label \in {"mixed", "both"}
    \/ rule.language = "both"
    \/ (label = "en" /\ rule.language # "tl")
    \/ (label = "tl" /\ rule.language # "en")

\* The tables with only the rules eligible under the label.
Gated(self, label) ==
    [self EXCEPT !.rules = SelectSeq(@, LAMBDA rule : EligibleUnder(rule, label))]

\* C11: in the pattern-rule pass of apply_rules(text, label), under English
\* no rule tagged Tagalog is applied, under Tagalog no rule tagged English,
\* under Mixed or Both every rule is eligible, and a rule tagged Both is
\* eligible under every label: the call does what a call with only the
\* eligible rules, all of them let through, does.
C11_LabelGatesPatternRules ==
    (request.op = "apply_rules" /\ result.state # "pending") =>
        result = Outcome(apply_rules(Gated(corrector.rules, request.language),
                                     request.text, "both"))

\* An English call that leaves 'nang ay' to the Tagalog rule alone, and a
\* Tagalog call that leaves 'a error' alone.
C11_Witness ==
    /\ Returned
    /\ request.op = "apply_rules"
    /\ \/ /\ request.language = "en"
          /\ request.text = "nang ay yung klase"
          /\ result.text = "Nang ay yung klase"
       \/ /\ request.language = "tl"
          /\ request.text = "the ho is a error"
          /\ result.text = "The po is a error"

\* A word boundary of s just before its i-th character
Boundary(s, i) == IsWordAt(s, i - 1) # IsWordAt(s, i)

\* Whether pattern.sub on s, from i on, replaces a match that begins or ends
\* inside a token.
RECURSIVE CutsToken(_, _, _)
CutsToken(p, s, i) ==
    IF i > Len(s) THEN FALSE
    ELSE IF MatchAt(p, TRUE, s, i).ok /\ MatchAt(p, TRUE, s, i).end > i
         THEN \/ ~Boundary(s, i)
              \/ ~Boundary(s, MatchAt(p, TRUE, s, i).end)
              \/ CutsToken(p, s, MatchAt(p, TRUE, s, i).end)
         ELSE CutsToken(p, s, i + 1)

\* Whether a word-split or lexicon entry, from the i-th on, cuts a token of
\* the text it is applied to.
RECURSIVE EntryCutsToken(_, _, _)
EntryCutsToken(text, entries, i) ==
    IF i > Len(entries) THEN FALSE
    ELSE IF ~Search(WholeWord(entries[i][1]), TRUE, text)
         THEN EntryCutsToken(text, entries, i + 1)
         ELSE \/ CutsToken(WholeWord(entries[i][1]), text, 1)
              \/ EntryCutsToken(Sub(WholeWord(entries[i][1]), TRUE, entries[i][2], text),
                                entries, i + 1)

\* A rule that rewrites words: its pattern opens with \b.
RewritesWords(rule) == rule.pattern[1] = WB[1]

\* Whether a word-rewriting rule eligible under the label, from the i-th
\* on, cuts a token of the text it is applied to.
RECURSIVE RuleCutsToken(_, _, _, _)
RuleCutsToken(text, rules, language, i) ==
    IF i > Len(rules) THEN FALSE
    ELSE IF ~should_apply(rules[i], language) \/ ~RewritesWords(rules[i])
            \/ ~Search(rules[i].pattern, TRUE, text)
         THEN RuleCutsToken(text, rules, language, i + 1)
         ELSE \/ CutsToken(rules[i].pattern, text, 1)
              \/ RuleCutsToken(Sub(rules[i].pattern, TRUE, rules[i].replacement, text),
                               rules, language, i + 1)

\* C12: no word-split entry, lexicon entry or pattern rule rewrites
\* characters inside a larger token: every substitution apply_rules makes
\* with the tables as constructed starts and ends at a word boundary of the
\* text it is made in, the patterns 'nang' + (ay|ang|mga|sa) and 'a' + vowel
\* included.
C12_SubstitutionsRespectTokens ==
    (request.op = "apply_rules" /\ corrector.rules = CorrectionRules /\ Returned) =>
        /\ ~EntryCutsToken(request.text, corrector.rules.tagalog_word_splits, 1)
        /\ ~EntryCutsToken(_split_concatenated_words(corrector.rules, request.text).text,
                           corrector.rules.common_errors, 1)
        /\ ~RuleCutsToken(CommonErrors(corrector.rules,
                               _split_concatenated_words(corrector.rules, request.text)).text,
                          corrector.rules.rules, request.language, 1)

\* Whether the text holds a word-split key, a lexicon key or a match of a
\* word-rewriting rule eligible under the label.
HasTrigger(self, text, language) ==
    \/ \E i \in 1..Len(self.tagalog_word_splits) :
           Search(WholeWord(self.tagalog_word_splits[i][1]), TRUE, text)
    \/ \E i \in 1..Len(self.common_errors) :
           Search(WholeWord(self.common_errors[i][1]), TRUE, text)
    \/ \E i \in 1..Len(self.rules) :
           /\ should_apply(self.rules[i], language)
           /\ RewritesWords(self.rules[i])
           /\ Search(self.rules[i].pattern, TRUE, text)

\* C13: apply_rules is idempotent on its whitespace, punctuation and
\* capitalization passes: when the output of a call with the tables as
\* constructed holds no word-split, lexicon or word-rewriting trigger, a
\* second call on that output returns the same text and records no change.
C13_TidyIsIdempotent ==
    (/\ request.op = "apply_rules"
     /\ corrector.rules = CorrectionRules
     /\ Returned
     /\ ~HasTrigger(corrector.rules, result.text, request.language)) =>
        Outcome(apply_rules(corrector.rules, result.text, request.language))
            = [state |-> "returned", text |-> result.text, changes |-> <<>>]

\* C14: no sequence of apply_rules, correct and correct_batch calls changes
\* the rule list, the word-split map or the lexicon built at construction,
\* so _detect_language and apply_rules are deterministic: after any such
\* sequence a call returns the corrected text and the ordered change list
\* (the label) that the tables as constructed give for its text and label.
C14_CallsLeaveTablesAlone ==
    /\ corrector.rules = CorrectionRules
    /\ (request.op = "apply_rules" /\ result # Pending) =>
           result = Outcome(apply_rules(CorrectionRules, request.text, request.language))
    /\ (request.op = "_detect_language" /\ result # Pending) =>
           result = [state |-> "returned", language |-> _detect_language(request.text)]

\* A call of apply_rules that recorded changes, made after a correct or
\* correct_batch call (every first call is one of those) had returned.
C14_Witness ==
    /\ request.op = "apply_rules"
    /\ request.text = "the ho is a error"
    /\ request.language = "en"
    /\ Returned
    /\ result.changes = <<"'ho' -> 'po'", "a -> an before vowels">>
    /\ corrector.rules = CorrectionRules

\* C15: in every result of correct(), under every config and whatever the
\* generative pass did, each change's confidence and the confidence_score
\* lie between 0 and 1 (0 and 1000 thousandths).
C15_ConfidencesWithinUnitInterval ==
    (request.op = "correct" /\ Returned) =>
        /\ result.confidence_score \in 0..FullConfidence
        /\ \A n \in 1..Len(result.changes) :
               result.changes[n].confidence \in 0..FullConfidence

\* A result whose changes come from the rules and from an adopted rewrite.
C15_Witness ==
    /\ request.op = "correct"
    /\ Returned
    /\ \E n \in 1..Len(result.changes) : result.changes[n].confidence = RuleConfidence
    /\ \E n \in 1..Len(result.changes) : result.changes[n].confidence = InsertDeleteConfidence
    /\ result.confidence_score \in (InsertDeleteConfidence + 1)..(RuleConfidence - 1)

\* The confidences of the result's changes, in order.
ChangeConfidences == [n \in 1..Len(result.changes) |-> result.changes[n].confidence]

\* The score a result without changes gets.
ScoreWithoutChanges ==
    IF result.corrected_text = request.text THEN FullConfidence ELSE UnexplainedConfidence

\* C16 as stated: confidence_score is the arithmetic mean of the change
\* confidences when there is at least one change; otherwise it is 1.0 if
\* corrected_text equals the input and 0.8 otherwise.
C16_ScoreIsExactMean ==
    (request.op = "correct" /\ Returned) =>
        IF result.changes # <<>>
        THEN result.confidence_score * Len(result.changes) = Sum(ChangeConfidences)
        ELSE result.confidence_score = ScoreWithoutChanges

\* C16: confidence_score is the arithmetic mean of the change confidences
\* rounded to three decimals (it lies within half a thousandth of the mean)
\* when there is at least one change; otherwise it is 1.0 if corrected_text
\* equals the input and 0.8 otherwise.
C16_ScoreIsRoundedMean ==
    (request.op = "correct" /\ Returned) =>
        IF result.changes # <<>>
        THEN /\ 2 * (result.confidence_score * Len(result.changes) - Sum(ChangeConfidences))
                    <= Len(result.changes)
             /\ 2 * (Sum(ChangeConfidences) - result.confidence_score * Len(result.changes))
                    <= Len(result.changes)
        ELSE result.confidence_score = ScoreWithoutChanges

\* Two rule changes at 1.0 and an insertion at 0.8: the mean 0.9333... is
\* returned as 0.933.
C16_Witness ==
    /\ request.op = "correct"
    /\ Returned
    /\ ChangeConfidences = <<RuleConfidence, RuleConfidence, InsertDeleteConfidence>>
    /\ result.confidence_score = 933

\* A text already normalized: single blanks between tokens only, none
\* before a punctuation mark, no letter right after one.
IsNormalized(text) ==
    \A i \in 1..Len(text) :
        /\ Ch(text, i) \in Whitespace =>
               /\ Ch(text, i) = " "
               /\ i > 1 /\ i < Len(text)
               /\ Ch(text, i + 1) \notin Whitespace \cup Punctuation
        /\ Ch(text, i) \in Punctuation =>
               (i = Len(text) \/ Ch(text, i + 1) \notin Letters)

\* A text already capitalized: no lower-case letter opens it or follows a
\* sentence end.
IsCapitalized(text) ==
    /\ text = "" \/ Ch(text, 1) \notin LowerSet
    /\ \A i \in 2..(Len(text) - 1) :
           (Ch(text, i) = " " /\ Ch(text, i - 1) \in SentenceEnd) =>
               Ch(text, i + 1) \notin LowerSet

\* C17: for a text that holds no word-split, lexicon or pattern trigger and
\* is already capitalized and normalized, such as 'This is perfectly
\* correct.', correct() with the rules on and no generative pass returns
\* corrected_text equal to the original text, no changes and confidence 1.0.
C17_CleanTextIsUntouched ==
    (/\ request.op = "correct"
     /\ Returned
     /\ request.config.use_rules
     /\ ~result.ml_invoked
     /\ IsNormalized(request.text)
     /\ IsCapitalized(request.text)
     /\ ~HasTrigger(corrector.rules, request.text, result.language)) =>
        /\ result.original_text = request.text
        /\ result.corrected_text = request.text
        /\ result.changes = <<>>
        /\ result.confidence_score = FullConfidence

C17_Witness ==
    /\ request.op = "correct"
    /\ Returned
    /\ request.config.use_rules
    /\ ~result.ml_invoked
    /\ request.text = "This is perfectly correct."
    /\ IsNormalized(request.text)
    /\ IsCapitalized(request.text)
    /\ ~HasTrigger(corrector.rules, request.text, result.language)
    /\ result.corrected_text = "This is perfectly correct."

\* The words the phonetic rules rewrite, with what they become.
PhoneticRewrites ==
    { <<"punction", "function">>, <<"bery", "very">>, <<"dis", "this">>,
      <<"wit", "with">>, <<"dat", "that">>, <<"alue", "value">>,
      <<"pormula", "formula">> }

\* Whether the word stands as a whole token of the text, in any case.
HasWord(text, word) == Search(WholeWord(word), TRUE, text)

\* The descriptions of the result's changes.
Descriptions == {result.changes[n].description : n \in 1..Len(result.changes)}

\* C18: correct() with the rules on and no generative pass, on 'dis is a
\* example wit bery bad punction' with the language detected, returns a text
\* containing 'this', 'an example', 'with', 'very' and 'function' and at
\* least five change records; in general the phonetic rules (punction,
\* bery, dis, wit, dat, alue, pormula) fire under every language label, and
\* the a -> an rule fires when the label is English.
C18_PhoneticRulesFireUnderEveryLabel ==
    (/\ request.op = "correct"
     /\ Returned
     /\ request.config.use_rules
     /\ ~result.ml_invoked) =>
        /\ (/\ request.text = "dis is a example wit bery bad punction"
            /\ request.config.language_hint \in {None, ""}) =>
               /\ \A part \in {"this", "an example", "with", "very", "function"} :
                      Contains(Lower(result.corrected_text), part)
               /\ Len(result.changes) >= 5
        /\ \A rewrite \in PhoneticRewrites :
               HasWord(request.text, rewrite[1]) =>
                   /\ ~HasWord(result.corrected_text, rewrite[1])
                   /\ HasWord(result.corrected_text, rewrite[2])
                   /\ Descriptions \cap {"P -> F confusion", "B -> V confusion",
                                         "D -> TH correction", "T -> TH correction"} # {}
        /\ (result.language = "en" /\ HasWord(request.text, "a example")) =>
               /\ HasWord(result.corrected_text, "an example")
               /\ "a -> an before vowels" \in Descriptions

\* The scenario with the language detected, and phonetic rewrites under the
\* Tagalog label and under the Mixed label.
C18_Witness ==
    /\ request.op = "correct"
    /\ Returned
    /\ request.config.use_rules
    /\ ~result.ml_invoked
    /\ \/ /\ request.text = "dis is a example wit bery bad punction"
          /\ request.config.language_hint = None
          /\ result.language = "en"
          /\ result.corrected_text = "This is an example with very bad function"
          /\ Len(result.changes) = 5
       \/ /\ request.text = "dis is a example wit bery bad punction"
          /\ result.language = "tl"
          /\ result.corrected_text = "This is a example with very bad function"
       \/ /\ request.text = "dat alue pormula"
          /\ result.language = "mixed"
          /\ result.corrected_text = "That value formula"

\* The change a word-split entry records.
SplitChange(entry) == "Split: '" \o entry[1] \o "' -> '" \o entry[2] \o "'"

\* The word-split entries whose key stands as a whole token of the text, in
\* any case, in the order of the table.
SplitsIn(self, text) ==
    SelectSeq(self.tagalog_word_splits, LAMBDA entry : HasWord(text, entry[1]))

\* C19: the word-splitting pass of apply_rules runs first and under every
\* label: each word-split key that stands as a whole token of the text, in
\* any case, has all its occurrences replaced and yields exactly one change
\* 'Split: <key> -> <value>', ahead of the changes of the later passes;
\* 'commustaka po sa inyong lahat' becomes 'Kumusta ka po sa inyong lahat'
\* with that one change record.
C19_WordSplitsRunFirst ==
    (request.op = "apply_rules" /\ Returned) =>
        /\ Len(result.changes) >= Len(SplitsIn(corrector.rules, request.text))
        /\ \A n \in 1..Len(SplitsIn(corrector.rules, request.text)) :
               /\ result.changes[n] = SplitChange(SplitsIn(corrector.rules, request.text)[n])
               /\ \/ HasWord(SplitsIn(corrector.rules, request.text)[n][2],
                              SplitsIn(corrector.rules, request.text)[n][1])
                  \/ ~HasWord(result.text, SplitsIn(corrector.rules, request.text)[n][1])
        /\ \A n \in (Len(SplitsIn(corrector.rules, request.text)) + 1)..Len(result.changes) :
               SubSeq(result.changes[n], 1, 6) # "Split:"
        /\ request.text = "commustaka po sa inyong lahat" =>
               /\ result.text = "Kumusta ka po sa inyong lahat"
               /\ result.changes = <<"Split: 'commustaka' -> 'kumusta ka'">>

\* The scenario under the English label, and two keys in other cases, one
\* of them twice.
C19_Witness ==
    /\ request.op = "apply_rules"
    /\ Returned
    /\ \/ /\ request.text = "commustaka po sa inyong lahat"
          /\ request.language = "en"
          /\ result.changes = <<"Split: 'commustaka' -> 'kumusta ka'">>
       \/ /\ request.text = "Kapo COMMUSTAKA kapo. ok"
          /\ request.language = "tl"
          /\ result.text = "Ka po kumusta ka ka po. Ok"
          /\ result.changes = <<"Split: 'commustaka' -> 'kumusta ka'",
                                "Split: 'kapo' -> 'ka po'">>

\* C20: every CorrectionResult correct() returns, for every config and
\* whatever its language_hint, has language in {en, tl, mixed}.
C20_LanguageIsAKnownLabel ==
    (request.op = "correct" /\ Returned) => result.language \in {"en", "tl", "mixed"}

\* What correct(text, request.config) can return on its own, whatever the
\* collaborator does when it is reached.
CorrectAlone(text) ==
    {correct(corrector, text, request.config, gen) : gen \in GenerationsFor(text)}

\* C21: correct_batch(texts, config) returns exactly one result per text,
\* in the order of the texts, and the i-th result is what correct(texts[i],
\* config) returns on its own: it depends neither on the other texts of the
\* batch nor on their order.
C21_BatchIsCorrectPerText ==
    (request.op = "correct_batch" /\ Returned) =>
        /\ Len(result.results) = Len(request.texts)
        /\ \A i \in 1..Len(request.texts) :
               /\ result.results[i] \in CorrectAlone(request.texts[i])
               /\ result.results[i].original_text = request.texts[i]

\* A batch of two different texts whose results differ.
C21_Witness ==
    /\ request.op = "correct_batch"
    /\ Returned
    /\ Len(request.texts) = 2
    /\ request.texts[1] # request.texts[2]
    /\ Len(result.results) = 2
    /\ result.results[1].corrected_text # result.results[2].corrected_text

\* C22: for any sequence of /correct requests, each request's own use_ml
\* flag decides whether the generative pass is enabled for it: a request
\* with use_ml false is corrected by the rules alone and reports method
\* 'rules', a request with use_ml true gets the generative pass, whatever
\* use_ml the earlier requests carried.
C22_RequestFlagDecidesMl ==
    (request.op = "POST /correct" /\ Returned) =>
        IF request.use_ml THEN result.ml_invoked
        ELSE ~result.ml_invoked /\ result.method = "rules"

\* The config that turns the rules and the generative pass off.
PassesOff == CorrectionConfig("standard", FALSE, FALSE, None, 700)

\* C23: the final clean-up is idempotent: _final_cleanup of a text it
\* returned is that text, so correct() with the rules and the generative
\* pass disabled returns an already cleaned text unchanged.
C23_FinalCleanupIsIdempotent ==
    (request.op = "_final_cleanup" /\ Returned) =>
        /\ _final_cleanup(result.text) = result.text
        /\ correct(corrector, result.text, PassesOff, NoGeneration).corrected_text
               = result.text

\* A text the clean-up trims and spaces.
C23_Witness ==
    /\ request.op = "_final_cleanup"
    /\ Returned
    /\ request.text = " a.B"
    /\ result.text = "a. B"

\* The pass a change record comes from: 1 word split, 2 lexicon, 3 pattern
\* rule, 4 generative diff.
PassOf(change) ==
    IF SubSeq(change.description, 1, 6) = "Split:" THEN 1
    ELSE IF SubSeq(change.description, 1, 3) = "ML:" THEN 4
    ELSE IF SubSeq(change.description, 1, 1) = "'" THEN 2
    ELSE 3

\* The place in its table of the entry or rule a record names (the first
\* rule with the description; 0 for a generative record).
PlaceOf(self, change) ==
    IF PassOf(change) = 1
    THEN CHOOSE i \in 1..Len(self.tagalog_word_splits) :
             SplitChange(self.tagalog_word_splits[i]) = change.description
    ELSE IF PassOf(change) = 2
    THEN CHOOSE i \in 1..Len(self.common_errors) :
             "'" \o self.common_errors[i][1] \o "' -> '" \o self.common_errors[i][2] \o "'"
                 = change.description
    ELSE IF PassOf(change) = 3
    THEN CHOOSE i \in 1..Len(self.rules) :
             /\ self.rules[i].description = change.description
             /\ \A j \in 1..(i - 1) : self.rules[j].description # change.description
    ELSE 0

\* The text after the word splits, then the lexicon, then the pattern
\* rules, then the capitalization, then the whitespace normalization.
PassesInOrder(self, text, language) ==
    Strip(CollapseWhitespace(_capitalize_sentences(
        PatternRules(self, CommonErrors(self, _split_concatenated_words(self, text)),
                     language).text)))

\* C24: the passes run in the order word split, lexicon, pattern rules,
\* capitalization, whitespace normalization, each on the output of the one
\* before, and result.changes is ordered accordingly: split records in
\* table order, then lexicon records in table order, then pattern-rule
\* records in rule-list order, each with confidence 1.0, then all the
\* generative diff records; no generative record precedes a rule record.
C24_PassesAndRecordsInOrder ==
    (request.op = "correct" /\ Returned /\ request.config.use_rules) =>
        /\ \A m, n \in 1..Len(result.changes) :
               m < n =>
                   /\ PassOf(result.changes[m]) <= PassOf(result.changes[n])
                   /\ PassOf(result.changes[m]) = PassOf(result.changes[n]) =>
                          PlaceOf(corrector.rules, result.changes[m])
                              <= PlaceOf(corrector.rules, result.changes[n])
        /\ \A n \in 1..Len(result.changes) :
               PassOf(result.changes[n]) < 4 =>
                   result.changes[n].confidence = RuleConfidence
        /\ ~result.ml_invoked =>
               result.corrected_text
                   = _final_cleanup(PassesInOrder(corrector.rules, request.text,
                                                  result.language))

\* A result with a split record, two lexicon records, a rule record and a
\* generative record, in that order.
C24_Witness ==
    /\ request.op = "correct"
    /\ Returned
    /\ request.text = "anoba ho dis"
    /\ Len(result.changes) = 5
    /\ [n \in 1..5 |-> PassOf(result.changes[n])] = <<1, 2, 2, 3, 4>>

\* Whether the changes, applied in order, turn the tokens before into the
\* tokens after: some equal tokens (at least gap of them), then the first
\* change's original tokens replaced by its corrected tokens, and so on.
RECURSIVE Explains(_, _, _, _)
Explains(before, after, changes, gap) ==
    IF changes = <<>> THEN before = after
    ELSE \E k \in gap..Len(before) :
           /\ k <= Len(after)
           /\ SubSeq(before, 1, k) = SubSeq(after, 1, k)
           /\ k + Len(Split(changes[1].original)) <= Len(before)
           /\ k + Len(Split(changes[1].corrected)) <= Len(after)
           /\ SubSeq(before, k + 1, k + Len(Split(changes[1].original)))
                  = Split(changes[1].original)
           /\ SubSeq(after, k + 1, k + Len(Split(changes[1].corrected)))
                  = Split(changes[1].corrected)
           /\ Explains(SubSeq(before, k + Len(Split(changes[1].original)) + 1, Len(before)),
                       SubSeq(after, k + Len(Split(changes[1].corrected)) + 1, Len(after)),
                       Tail(changes), 1)

\* A replace, a delete or an insert record as _find_differences builds it.
IsBlockRecord(change) ==
    \/ /\ change.original # "" /\ change.corrected # ""
       /\ change.error_type = "word_choice"
       /\ change.confidence = 850
    \/ /\ change.original # "" /\ change.corrected = ""
       /\ change.error_type = "grammar"
       /\ change.confidence = 800
    \/ /\ change.original = "" /\ change.corrected # ""
       /\ change.error_type = "grammar"
       /\ change.confidence = 800

\* C25: _find_differences(before, after) over the whitespace tokens returns
\* one change per replace, insert or delete block and none for equal
\* blocks: a replace has non-empty original and corrected, type WordChoice
\* and confidence 0.85; a delete has empty corrected, an insert empty
\* original, both type Grammar and confidence 0.8; the list is empty iff
\* the token sequences are equal, and applying the blocks in order to the
\* tokens of before yields the tokens of after.
C25_DifferencesAreTheEditBlocks ==
    (request.op = "_find_differences" /\ Returned) =>
        /\ \A n \in 1..Len(result.changes) : IsBlockRecord(result.changes[n])
        /\ (result.changes = <<>>) <=> (Split(request.original) = Split(request.corrected))
        /\ Explains(Split(request.original), Split(request.corrected), result.changes, 0)

\* Two blocks, one of them a replace.
C25_Witness ==
    /\ request.op = "_find_differences"
    /\ Returned
    /\ Len(result.changes) = 2
    /\ \E n \in 1..2 : result.changes[n].error_type = "word_choice"
    /\ \E n \in 1..2 : result.changes[n].error_type = "grammar"

\* C26: for every text and label, the text apply_rules returns has no
\* leading or trailing whitespace, no run of two or more whitespace
\* characters and no whitespace right before one of . , ! ? ; :
C26_OutputIsNormalized ==
    (request.op = "apply_rules" /\ Returned) =>
        /\ result.text = "" \/ (/\ Ch(result.text, 1) \notin Whitespace
                                /\ Ch(result.text, Len(result.text)) \notin Whitespace)
        /\ \A i \in 1..(Len(result.text) - 1) :
               Ch(result.text, i) \in Whitespace =>
                   Ch(result.text, i + 1) \notin Whitespace \cup Punctuation

\* A text with a leading blank, a run of blanks and a blank before the
\* full stop.
C26_Witness ==
    /\ request.op = "apply_rules"
    /\ Returned
    /\ request.text \in {" B .", "B  a", "a . "}
    /\ result.text \in {"B.", "B a", "A."}

\* C27: for every text and label, in the text apply_rules returns the
\* first character, when a letter, is upper case, and every fragment that
\* follows sentence-ending punctuation (. ! ?) and whitespace starts with
\* an upper-case letter when it starts with a letter.
C27_SentencesAreCapitalized ==
    (request.op = "apply_rules" /\ Returned) =>
        /\ result.text = "" \/ Ch(result.text, 1) \notin LowerSet
        /\ \A i \in 2..(Len(result.text) - 1) :
               (Ch(result.text, i) \in Whitespace /\ Ch(result.text, i - 1) \in SentenceEnd) =>
                   Ch(result.text, i + 1) \notin LowerSet

\* The descriptions the pattern rules from the i-th on contribute: each
\* eligible rule is applied once, as one substitution of all its matches on
\* the text the earlier rules rewrote, and contributes its description once
\* if that substitution changed the text, and nothing if it did not.
RECURSIVE RuleRecords(_, _, _, _)
RuleRecords(text, rules, language, i) ==
    IF i > Len(rules) THEN <<>>
    ELSE IF ~should_apply(rules[i], language) \/ ~Search(rules[i].pattern, TRUE, text)
         THEN RuleRecords(text, rules, language, i + 1)
         ELSE (IF Sub(rules[i].pattern, TRUE, rules[i].replacement, text) # text
               THEN <<rules[i].description>> ELSE <<>>)
              \o RuleRecords(Sub(rules[i].pattern, TRUE, rules[i].replacement, text),
                             rules, language, i + 1)

\* How many records carry the description, and how many table entries
\* (word splits, lexicon entries, pattern rules) would record it.
RecordsWith(description) ==
    Cardinality({n \in 1..Len(result.changes) : result.changes[n] = description})

EntriesWith(self, description) ==
    Cardinality({i \in 1..Len(self.tagalog_word_splits) :
                    SplitChange(self.tagalog_word_splits[i]) = description})
    + Cardinality({i \in 1..Len(self.common_errors) :
                    "'" \o self.common_errors[i][1] \o "' -> '"
                        \o self.common_errors[i][2] \o "'" = description})
    + Cardinality({i \in 1..Len(self.rules) : self.rules[i].description = description})

\* C28: in one apply_rules call each pattern rule is applied at most once,
\* as a single substitution of all its non-overlapping matches on the text
\* rewritten by the earlier rules, and contributes at most one description
\* however many occurrences it rewrote; a rule whose substitution leaves the
\* text unchanged contributes none; so the rule engine emits at most one
\* record per table entry.
C28_OneRecordPerRule ==
    (request.op = "apply_rules" /\ Returned) =>
        /\ result.changes =
               CommonErrors(corrector.rules,
                            _split_concatenated_words(corrector.rules, request.text)).changes
               \o RuleRecords(CommonErrors(corrector.rules,
                       _split_concatenated_words(corrector.rules, request.text)).text,
                       corrector.rules.rules, request.language, 1)
        /\ \A n \in 1..Len(result.changes) :
               RecordsWith(result.changes[n]) <= EntriesWith(corrector.rules, result.changes[n])

\* A rule that rewrote two occurrences and recorded once, and the Tagalog
\* rule for 'po' that matched and left the text as it was.
C28_Witness ==
    /\ request.op = "apply_rules"
    /\ Returned
    /\ \/ /\ request.text = "bery PO bery po"
          /\ request.language = "en"
          /\ result.text = "Very PO very po"
          /\ result.changes = <<"B -> V confusion">>
       \/ /\ request.text = "commustaka po sa inyong lahat"
          /\ request.language = "tl"
          /\ result.changes = <<"Split: 'commustaka' -> 'kumusta ka'">>

\* The loop of a table pass (word splits under the head "Split: '", the
\* lexicon under the head "'") that records an entry only when its
\* substitution altered the text.
RECURSIVE AlteringLoop(_, _, _, _, _)
AlteringLoop(acc, lower, entries, i, head) ==
    IF i > Len(entries) THEN acc
    ELSE IF Contains(lower, entries[i][1]) /\ Search(WholeWord(entries[i][1]), TRUE, acc.text)
         THEN AlteringLoop(
                  [text |-> Sub(WholeWord(entries[i][1]), TRUE, entries[i][2], acc.text),
                   changes |->
                       IF Sub(WholeWord(entries[i][1]), TRUE, entries[i][2], acc.text) = acc.text
                       THEN acc.changes
                       ELSE Append(acc.changes,
                                head \o entries[i][1] \o "' -> '" \o entries[i][2] \o "'")],
                  Lower(Sub(WholeWord(entries[i][1]), TRUE, entries[i][2], acc.text)),
                  entries, i + 1, head)
         ELSE AlteringLoop(acc, lower, entries, i + 1, head)

\* The records of apply_rules when only the steps that altered the text
\* record.
AlteringRecords(self, text, language) ==
    PatternRules(self,
        AlteringLoop(
            AlteringLoop([text |-> text, changes |-> <<>>], Lower(text),
                         self.tagalog_word_splits, 1, "Split: '"),
            Lower(AlteringLoop([text |-> text, changes |-> <<>>], Lower(text),
                               self.tagalog_word_splits, 1, "Split: '").text),
            self.common_errors, 1, "'"),
        language).changes

\* C29: every change record of apply_rules (word split, lexicon entry or
\* pattern rule) comes from a step whose substitution altered the text: a
\* step whose input and output are equal records nothing.
C29_EveryRecordAlteredTheText ==
    (request.op = "apply_rules" /\ Returned) =>
        result.changes = AlteringRecords(corrector.rules, request.text, request.language)

\* The lexicon records among the descriptions of a call to apply_rules.
LexiconRecords(changes) == SelectSeq(changes, LAMBDA change : SubSeq(change, 1, 1) = "'")

\* The record of a lexicon entry.
LexiconChange(entry) == "'" \o entry[1] \o "' -> '" \o entry[2] \o "'"

\* The lexicon entries whose key stands as a whole word of the text, in any
\* case, in the order of the table.
EntriesIn(self, text) ==
    SelectSeq(self.common_errors, LAMBDA entry : HasWord(text, entry[1]))

=============================================================================
